---- MODULE Spec2Model ----
(***************************************************************************)
(* Easy_ACC: the allocation engine of the energy balance page              *)
(* (compute_metrics, src/pages/bilan/energie.py).  One action is one       *)
(* iteration of the timestep loop; the row of the two consolidated tables  *)
(* it reads is the action's input.  Quantities are exact rationals.        *)
(***************************************************************************)
EXTENDS Integers, Sequences, FiniteSets, TLC

\* ------------------------------------------------------------ bounds
\* Number of rows of the consolidated tables (timesteps of a run).
MaxT == 2
\* A producer's output at a timestep is 100 * k kW, k in 0..MaxProdLevel.
MaxProdLevel == 1
\* A consumer's demand at a timestep is k times its unit, k in 0..MaxConsoLevel.
MaxConsoLevel == 1
\* Rows of the tables whose timesteps are processed in any order (SpecPar).
ParT == 2
\* The hours the consolidated tables may cover, and their longest length.
AlignHours == 3
AlignLen == 2
\* The weeks a weekly curve may cover beyond its first, the largest max_weeks
\* tried, and the day of the curves that miss a whole day.
ImputeWeeks == 4
MaxMaxWeeks == 2
GapDay == 3
\* The rows of the regular curves given to the resampler.
ResampleRows == 3
\* The most rows of the curves given to the validator.
ValidateRows == 3
\* The most actors of the longer of the two lists given to build_dataframes.
BuildActors == 2
\* The hours of a file given to process_curve: 0..FileHours - 1, and the same
\* hours one week later.
FileHours == 3
\* The most rows of a table given to read_curve.
ReadRows == 3

Producers == {"p1", "p2"}
Consumers == {"c1", "c2", "c3"}

ProdKW == {100 * k : k \in 0..MaxProdLevel}
DemandUnit == ("c1" :> 50) @@ ("c2" :> 50) @@ ("c3" :> 100)

\* The rows the two tables may hold.
ProdRows == [Producers -> ProdKW]

ConsoRows ==
    {[c \in Consumers |-> DemandUnit[c] * level[c]] :
        level \in [Consumers -> 0..MaxConsoLevel]}

\* ------------------------------------------------------------ exact arithmetic
\* A quantity is a reduced fraction <<n, d>> with d > 0.
RECURSIVE GCD(_, _)
GCD(a, b) == IF b = 0 THEN a ELSE GCD(b, a % b)

Abs(x) == IF x < 0 THEN -x ELSE x

Rat(n, d) == LET g == GCD(Abs(n), d) IN <<n \div g, d \div g>>

Zero == <<0, 1>>

FromInt(n) == <<n, 1>>

RAdd(a, b) == Rat(a[1] * b[2] + b[1] * a[2], a[2] * b[2])

RSub(a, b) == Rat(a[1] * b[2] - b[1] * a[2], a[2] * b[2])

RMul(a, b) == Rat(a[1] * b[1], a[2] * b[2])

\* b is never zero where the code divides (prod_total, conso_total and
\* group_conso are tested first; 100 is a literal).
RDiv(a, b) ==
    IF b[1] > 0 THEN Rat(a[1] * b[2], a[2] * b[1])
    ELSE Rat(-(a[1] * b[2]), -(a[2] * b[1]))

RLe(a, b) == a[1] * b[2] <= b[1] * a[2]

RLt(a, b) == a[1] * b[2] < b[1] * a[2]

RMin(a, b) == IF RLe(a, b) THEN a ELSE b

RECURSIVE RSum(_, _)
RSum(f, S) ==
    IF S = {} THEN Zero
    ELSE LET x == CHOOSE y \in S : TRUE IN RAdd(f[x], RSum(f, S \ {x}))

RECURSIVE IntSum(_, _)
IntSum(f, S) ==
    IF S = {} THEN 0
    ELSE LET x == CHOOSE y \in S : TRUE IN f[x] + IntSum(f, S \ {x})

\* dict.get(key, default)
Get(d, k, default) == IF k \in DOMAIN d THEN d[k] ELSE default

\* ------------------------------------------------------------ state
VARIABLES
    mode,                 \* "statique" | "dynamique_defaut" | "dynamique_simple"
    consumer_percentages, \* st.session_state["consumer_percentages"]
    consumer_priorities,  \* st.session_state["consumer_priorities"]
    consumer_group_keys,  \* st.session_state["consumer_group_keys"]
    df_prod,              \* rows of the producers' table, in kW
    df_conso,             \* rows of the consumers' table, in kW
    done,                 \* the timesteps whose iteration has run
    surplus_prod,         \* per producer, summed over the timesteps
    auto_partage_total,   \* per consumer, summed over the timesteps
    fourn_compl_total,    \* per consumer, summed over the timesteps
    auto_partage_df,      \* per timestep and consumer
    auto_prod_df,         \* per timestep and producer
    t,                    \* the timestep of the last iteration (0: none yet)
    it                    \* the locals of the last iteration

\* The aggregation of the actors' curves (services/data_aggregation.py).
VARIABLES
    points_consumers,     \* st.session_state["points_consumers"]
    points_producers,     \* st.session_state["points_producers"]
    consumers_df,         \* the consolidated table of the consumers
    producers_df,         \* the consolidated table of the producers
    summary               \* the summary build_dataframes returns

\* The processing of one curve (services/curve_processing).
VARIABLES
    pandas,               \* what the installed pandas does where versions differ
    curve,                \* the DataFrame given to the function
    target_timestep,      \* "PT15M" | "PT30M" | "PT60M"
    max_weeks,            \* weeks tried in each direction
    resampled,            \* what resample_curve returns
    df_imputed,           \* the DataFrame impute_by_week_shift returns
    impute_report,        \* the report impute_by_week_shift returns
    validation,           \* the report validate_curve returns
    stage                 \* the step the run has reached

\* The reading of one file (services/curve_processing/io.py).
VARIABLES
    raw_df,               \* the table read_curve is given
    metadata              \* the metadata read_curve returns

readVars == <<raw_df, metadata>>

allocVars == <<mode, consumer_percentages, consumer_priorities, consumer_group_keys,
               df_prod, df_conso, done, surplus_prod, auto_partage_total,
               fourn_compl_total, auto_partage_df, auto_prod_df, t, it>>

aggVars == <<points_consumers, points_producers, consumers_df, producers_df, summary>>

curveVars == <<pandas, curve, target_timestep, max_weeks, resampled, df_imputed,
               impute_report, validation, stage>>

vars == <<allocVars, aggVars, curveVars, readVars>>

\* None, where a table or a report is expected
None == [none |-> TRUE]

\* None, where a name is expected
Unset == "None"

\* No aggregation is under way.
NoAggregation ==
    /\ points_consumers = <<>>
    /\ points_producers = <<>>
    /\ consumers_df = None
    /\ producers_df = None
    /\ summary = None

\* No curve is being processed.
NoCurve ==
    /\ pandas = None
    /\ curve = None
    /\ target_timestep = Unset
    /\ max_weeks = 0
    /\ resampled = None
    /\ df_imputed = None
    /\ impute_report = None
    /\ validation = None
    /\ stage = Unset

NoRead ==
    /\ raw_df = None
    /\ metadata = None

config == <<mode, consumer_percentages, consumer_priorities, consumer_group_keys>>

ZeroConso == [c \in Consumers |-> Zero]

ZeroProd == [p \in Producers |-> Zero]

\* ------------------------------------------------------------ configuration
\* The settings page stores one percentage per consumer (0..100), one
\* priority per consumer (1..20) and, per priority, the key of the group.
StaticKey(perc) == [mode |-> "static", percentages |-> perc]

DefaultKey == [mode |-> "default", percentages |-> <<>>]

PercentageMaps ==
    { ("c1" :> 60) @@ ("c2" :> 40),
      ("c1" :> 40) @@ ("c2" :> 40) @@ ("c3" :> 0),
      ("c1" :> 60) @@ ("c2" :> 60) @@ ("c3" :> 0),
      <<>> }

PriorityMaps ==
    { ("c1" :> 1) @@ ("c2" :> 1) @@ ("c3" :> 2),
      ("c1" :> 1) @@ ("c2" :> 2) @@ ("c3" :> 2),
      ("c1" :> 1) @@ ("c2" :> 2) @@ ("c3" :> 3),
      ("c1" :> 1) @@ ("c2" :> 2) }

GroupPercentageMaps ==
    { ("c1" :> 60) @@ ("c2" :> 40) @@ ("c3" :> 100) }

\* The keys of the groups: none applied, or the groups of S static with the
\* percentages gp and the other groups of priority 1 and 2 on the default key.
GroupKeyMaps ==
    { <<>> } \cup
    { [pr \in {1, 2} |-> IF pr \in S THEN StaticKey(gp) ELSE DefaultKey] :
        S \in (SUBSET {1, 2}) \ {{}}, gp \in GroupPercentageMaps }

Configs ==
    { <<"dynamique_defaut", <<>>, <<>>, <<>> >> } \cup
    { <<"statique", cp, <<>>, <<>> >> : cp \in PercentageMaps } \cup
    { <<"dynamique_simple", <<>>, pm, gk>> : pm \in PriorityMaps, gk \in GroupKeyMaps }

\* One configuration of each policy, and DynamicSimple with and without a
\* static group.
ParConfigs ==
    { <<"dynamique_defaut", <<>>, <<>>, <<>> >>,
      <<"statique", ("c1" :> 60) @@ ("c2" :> 40), <<>>, <<>> >>,
      <<"dynamique_simple", <<>>, ("c1" :> 1) @@ ("c2" :> 1) @@ ("c3" :> 2), <<>> >>,
      <<"dynamique_simple", <<>>, ("c1" :> 1) @@ ("c2" :> 2) @@ ("c3" :> 3),
        [pr \in {1, 2} |-> StaticKey(("c1" :> 60) @@ ("c2" :> 40) @@ ("c3" :> 100))] >> }

\* ------------------------------------------------------------ the loop body
\* ConsumerSplit with the unused share of a consumer not accrued as surplus.
ConsumerSplitNoSurplus(conso_real, allocated) ==
    IF RLe(conso_real, allocated)
    THEN [auto |-> conso_real, surplus |-> Zero, compl |-> Zero]
    ELSE [auto |-> allocated, surplus |-> Zero, compl |-> RSub(conso_real, allocated)]

\* One consumer's share of the production against its demand.
ConsumerSplit(conso_real, allocated) ==
    IF RLe(conso_real, allocated)
    THEN [auto |-> conso_real, surplus |-> RSub(allocated, conso_real), compl |-> Zero]
    ELSE [auto |-> allocated, surplus |-> Zero, compl |-> RSub(conso_real, allocated)]

\* AllocatedStatique with the percentage taken as a fraction (no / 100).
AllocatedStatiqueNoPercent(prod, percentage) ==
    RMul(prod, FromInt(percentage))

AllocatedStatique(prod, percentage) ==
    RMul(prod, RDiv(FromInt(percentage), FromInt(100)))

AllocatedDefaut(prod, conso_c, conso_total) ==
    RMul(prod, RDiv(conso_c, conso_total))

\* The amounts of a timestep once every consumer has been split: what the
\* members loop has added to the totals, written to auto_partage_df and
\* accrued to surplus_total.
Splits(split, members) ==
    [cont |-> FALSE,
     auto |-> [c \in Consumers |-> IF c \in members THEN split[c].auto ELSE Zero],
     compl |-> [c \in Consumers |-> IF c \in members THEN split[c].compl ELSE Zero],
     surplus_total |-> RSum([c \in members |-> split[c].surplus], members),
     pool |-> <<>>,
     production_restante |-> Zero]

\* continue: nothing of the timestep is recorded.
Continue ==
    [cont |-> TRUE, auto |-> ZeroConso, compl |-> ZeroConso,
     surplus_total |-> Zero, pool |-> <<>>, production_restante |-> Zero]

\* mode == "statique"
Statique(prod_total, row_conso) ==
    Splits([c \in Consumers |->
              ConsumerSplit(FromInt(row_conso[c]),
                  AllocatedStatique(prod_total, Get(consumer_percentages, c, 0)))],
           Consumers)

DefautSplits(prod_total, row_conso, conso_total) ==
    IF conso_total = Zero THEN Continue
    ELSE Splits([c \in Consumers |->
                   ConsumerSplit(FromInt(row_conso[c]),
                       AllocatedDefaut(prod_total, FromInt(row_conso[c]), conso_total))],
                Consumers)

\* mode == "dynamique_defaut"
DynamiqueDefaut(prod_total, row_conso) ==
    DefautSplits(prod_total, row_conso, FromInt(IntSum(row_conso, Consumers)))

\* mode == "dynamique_simple": the priority groups
Groups == {consumer_priorities[c] : c \in DOMAIN consumer_priorities}

Members(pr) == {c \in DOMAIN consumer_priorities : consumer_priorities[c] = pr}

GroupMode(pr) == Get(Get(consumer_group_keys, pr, <<>>), "mode", "default")

GroupPercentages(pr) == Get(Get(consumer_group_keys, pr, <<>>), "percentages", <<>>)

MinOf(S) == CHOOSE x \in S : \A y \in S : x <= y

\* ProdForGroup granting the whole demand of the group.
ProdForGroupDemand(production_restante, group_conso) == group_conso

ProdForGroup(production_restante, group_conso) ==
    RMin(production_restante, group_conso)

\* RestanteAfter with the pool left as it was.
RestanteAfterKept(production_restante, prod_for_group) == production_restante

RestanteAfter(production_restante, prod_for_group) ==
    RSub(production_restante, prod_for_group)

\* A group on the static key: what its members add to the accumulators.
GroupStatic(members, percentages, prod_for_group, row_conso) ==
    Splits([c \in members |->
              ConsumerSplit(FromInt(row_conso[c]),
                  AllocatedStatique(prod_for_group, Get(percentages, c, 0)))],
           members)

\* A group on the default key: no complement and no surplus is recorded.
GroupDefault(members, prod_for_group, group_conso, row_conso) ==
    [auto |-> [c \in Consumers |->
                 IF c \in members /\ RLt(Zero, group_conso)
                 THEN RMin(AllocatedDefaut(prod_for_group, FromInt(row_conso[c]), group_conso),
                           FromInt(row_conso[c]))
                 ELSE Zero],
     compl |-> ZeroConso,
     surplus_total |-> Zero]

\* The accumulators after the members of the group pr have been served g.
GroupRecord(pr, members, acc, group_conso, prod_for_group, after, g) ==
    [cont |-> FALSE,
     auto |-> [c \in Consumers |-> IF c \in members THEN g.auto[c] ELSE acc.auto[c]],
     compl |-> [c \in Consumers |-> IF c \in members THEN g.compl[c] ELSE acc.compl[c]],
     surplus_total |-> RAdd(acc.surplus_total, g.surplus_total),
     pool |-> Append(acc.pool,
                [pr |-> pr, group_conso |-> group_conso,
                 before |-> acc.production_restante,
                 prod_for_group |-> prod_for_group, after |-> after]),
     production_restante |-> after]

GroupGrant(pr, members, row_conso, acc, group_conso, prod_for_group) ==
    GroupRecord(pr, members, acc, group_conso, prod_for_group,
        RestanteAfter(acc.production_restante, prod_for_group),
        IF GroupMode(pr) = "static"
        THEN GroupStatic(members, GroupPercentages(pr), prod_for_group, row_conso)
        ELSE GroupDefault(members, prod_for_group, group_conso, row_conso))

GroupDemanded(pr, members, row_conso, acc, group_conso) ==
    GroupGrant(pr, members, row_conso, acc, group_conso,
        ProdForGroup(acc.production_restante, group_conso))

\* The body of for pr in sorted(groups.keys()), past the break test.
GroupStep(pr, members, row_conso, acc) ==
    GroupDemanded(pr, members, row_conso, acc, FromInt(IntSum(row_conso, members)))

\* for pr in sorted(groups.keys()), from the groups of todo onwards
RECURSIVE GroupLoop(_, _, _)
GroupLoop(todo, row_conso, acc) ==
    IF todo = {} THEN acc
    ELSE IF RLe(acc.production_restante, Zero) THEN acc
    ELSE GroupLoop(todo \ {MinOf(todo)}, row_conso,
                   GroupStep(MinOf(todo), Members(MinOf(todo)), row_conso, acc))

\* Leftover that adds nothing to the surplus.
LeftoverDropped(r) == r

\* if production_restante > 0: surplus_total += production_restante
Leftover(r) ==
    [r EXCEPT !.surplus_total =
        IF RLt(Zero, r.production_restante)
        THEN RAdd(@, r.production_restante) ELSE @]

DynamiqueSimple(prod_total, row_conso) ==
    Leftover(GroupLoop(Groups, row_conso,
                 [cont |-> FALSE, auto |-> ZeroConso, compl |-> ZeroConso,
                  surplus_total |-> Zero, pool |-> <<>>,
                  production_restante |-> prod_total]))

\* SurplusP with equal shares for the producers.
SurplusPEqualShare(surplus_total, prod_p, prod_total) ==
    RDiv(surplus_total, FromInt(Cardinality(Producers)))

\* The surplus of the timestep attributed to one producer.
SurplusP(surplus_total, prod_p, prod_total) ==
    RMul(surplus_total, RDiv(prod_p, prod_total))

\* Skipped with the whole demand pushed into the complement.
SkippedWithComplement(prod_total, row_conso) ==
    [cont |-> TRUE, prod_total |-> prod_total, auto |-> ZeroConso,
     compl |-> [c \in Consumers |-> FromInt(row_conso[c])],
     surplus_total |-> Zero, pool |-> <<>>,
     production_restante |-> Zero, surplus_p |-> ZeroProd, auto_prod |-> ZeroProd]

\* What a skipped timestep (continue) leaves: nothing is added to any total
\* and the rows of the two per-timestep tables keep their initial zeros.
Skipped(prod_total, row_conso) ==
    [cont |-> TRUE, prod_total |-> prod_total, auto |-> ZeroConso,
     compl |-> ZeroConso, surplus_total |-> Zero, pool |-> <<>>,
     production_restante |-> Zero, surplus_p |-> ZeroProd, auto_prod |-> ZeroProd]

\* for p in df_prod.columns: the surplus of each producer and what it
\* consumed itself.
Producteurs(row_prod, prod_total, a, surplus_p) ==
    [cont |-> FALSE, prod_total |-> prod_total, auto |-> a.auto,
     compl |-> a.compl, surplus_total |-> a.surplus_total, pool |-> a.pool,
     production_restante |-> a.production_restante,
     surplus_p |-> surplus_p,
     auto_prod |-> [p \in Producers |-> RSub(FromInt(row_prod[p]), surplus_p[p])]]

Repartition(row_prod, row_conso, prod_total, a) ==
    IF a.cont THEN Skipped(prod_total, row_conso)
    ELSE Producteurs(row_prod, prod_total, a,
            [p \in Producers |->
                SurplusP(a.surplus_total, FromInt(row_prod[p]), prod_total)])

Allocation(row_prod, row_conso, prod_total) ==
    IF prod_total = Zero THEN Skipped(prod_total, row_conso)
    ELSE Repartition(row_prod, row_conso, prod_total,
            CASE mode = "statique" -> Statique(prod_total, row_conso)
              [] mode = "dynamique_defaut" -> DynamiqueDefaut(prod_total, row_conso)
              [] OTHER -> DynamiqueSimple(prod_total, row_conso))

\* One iteration of for t in range(n_rows): the amounts it adds and writes.
Iteration(row_prod, row_conso) ==
    Allocation(row_prod, row_conso, FromInt(IntSum(row_prod, Producers)))

\* Accumulate with = in place of +=.
AccumulateOverwrite(total, amount) == amount

\* total += amount
Accumulate(total, amount) == RAdd(total, amount)

\* ------------------------------------------------------------ the sequential loop
NoIteration == Skipped(Zero, [c \in Consumers |-> 0])

Init ==
    /\ \E cfg \in Configs :
         /\ mode = cfg[1]
         /\ consumer_percentages = cfg[2]
         /\ consumer_priorities = cfg[3]
         /\ consumer_group_keys = cfg[4]
    /\ df_prod = <<>>
    /\ df_conso = <<>>
    /\ done = {}
    /\ surplus_prod = ZeroProd
    /\ auto_partage_total = ZeroConso
    /\ fourn_compl_total = ZeroConso
    /\ auto_partage_df = <<>>
    /\ auto_prod_df = <<>>
    /\ t = 0
    /\ it = NoIteration
    /\ NoAggregation
    /\ NoCurve
    /\ NoRead

\* The iteration of the next timestep, on the row it reads.
Record(k, r) ==
    /\ t' = k
    /\ it' = r
    /\ done' = done \cup {k}
    /\ surplus_prod' = [p \in Producers |-> Accumulate(surplus_prod[p], r.surplus_p[p])]
    /\ auto_partage_total' = [c \in Consumers |-> Accumulate(auto_partage_total[c], r.auto[c])]
    /\ fourn_compl_total' = [c \in Consumers |-> Accumulate(fourn_compl_total[c], r.compl[c])]
    /\ UNCHANGED <<config, aggVars, curveVars, readVars>>

Appended(row_prod, row_conso, r) ==
    /\ df_prod' = Append(df_prod, row_prod)
    /\ df_conso' = Append(df_conso, row_conso)
    /\ auto_partage_df' = Append(auto_partage_df, r.auto)
    /\ auto_prod_df' = Append(auto_prod_df, r.auto_prod)
    /\ Record(Len(df_prod) + 1, r)

Timestep(row_prod, row_conso) ==
    Appended(row_prod, row_conso, Iteration(row_prod, row_conso))

NoProduction ==
    /\ Len(df_prod) < MaxT
    /\ \E row_prod \in ProdRows, row_conso \in ConsoRows :
        /\ IntSum(row_prod, Producers) = 0
        /\ Timestep(row_prod, row_conso)

TimestepStatique ==
    /\ Len(df_prod) < MaxT
    /\ \E row_prod \in ProdRows, row_conso \in ConsoRows :
        /\ IntSum(row_prod, Producers) # 0
        /\ mode = "statique"
        /\ Timestep(row_prod, row_conso)

TimestepDynamiqueDefaut ==
    /\ Len(df_prod) < MaxT
    /\ \E row_prod \in ProdRows, row_conso \in ConsoRows :
        /\ IntSum(row_prod, Producers) # 0
        /\ mode = "dynamique_defaut"
        /\ Timestep(row_prod, row_conso)

TimestepDynamiqueSimple ==
    /\ Len(df_prod) < MaxT
    /\ \E row_prod \in ProdRows, row_conso \in ConsoRows :
        /\ IntSum(row_prod, Producers) # 0
        /\ mode = "dynamique_simple"
        /\ Timestep(row_prod, row_conso)

Next ==
    \/ NoProduction
    \/ TimestepStatique
    \/ TimestepDynamiqueDefaut
    \/ TimestepDynamiqueSimple

Spec == Init /\ [][Next]_vars

TypeOK ==
    /\ t \in 0..MaxT
    /\ Len(df_prod) = Len(df_conso)

\* ------------------------------------------------------------ compute_metrics
\* The results of the sequential loop over the first k rows of the tables.
RECURSIVE SeqLoop(_)
SeqLoop(k) ==
    IF k = 0
    THEN [surplus_prod |-> ZeroProd, auto_partage_total |-> ZeroConso,
          fourn_compl_total |-> ZeroConso,
          auto_partage_df |-> [i \in 1..Len(df_conso) |-> ZeroConso],
          auto_prod_df |-> [i \in 1..Len(df_prod) |-> ZeroProd]]
    ELSE LET prev == SeqLoop(k - 1)
             r == Iteration(df_prod[k], df_conso[k])
         IN [surplus_prod |->
                [p \in Producers |-> Accumulate(prev.surplus_prod[p], r.surplus_p[p])],
             auto_partage_total |->
                [c \in Consumers |-> Accumulate(prev.auto_partage_total[c], r.auto[c])],
             fourn_compl_total |->
                [c \in Consumers |-> Accumulate(prev.fourn_compl_total[c], r.compl[c])],
             auto_partage_df |-> [prev.auto_partage_df EXCEPT ![k] = r.auto],
             auto_prod_df |-> [prev.auto_prod_df EXCEPT ![k] = r.auto_prod]]

n_rows == IF Len(df_prod) <= Len(df_conso) THEN Len(df_prod) ELSE Len(df_conso)

compute_metrics == SeqLoop(n_rows)

Results ==
    [surplus_prod |-> surplus_prod, auto_partage_total |-> auto_partage_total,
     fourn_compl_total |-> fourn_compl_total, auto_partage_df |-> auto_partage_df,
     auto_prod_df |-> auto_prod_df]

\* ------------------------------------------------------------ timesteps in any order
\* The two tables are given; a worker takes any timestep not yet processed,
\* runs the loop body on its row and adds its amounts to the totals.
InitPar ==
    /\ \E cfg \in ParConfigs :
         /\ mode = cfg[1]
         /\ consumer_percentages = cfg[2]
         /\ consumer_priorities = cfg[3]
         /\ consumer_group_keys = cfg[4]
    /\ df_prod \in [1..ParT -> ProdRows]
    /\ df_conso \in [1..ParT -> ConsoRows]
    /\ done = {}
    /\ surplus_prod = ZeroProd
    /\ auto_partage_total = ZeroConso
    /\ fourn_compl_total = ZeroConso
    /\ auto_partage_df = [i \in 1..ParT |-> ZeroConso]
    /\ auto_prod_df = [i \in 1..ParT |-> ZeroProd]
    /\ t = 0
    /\ it = NoIteration
    /\ NoAggregation
    /\ NoCurve
    /\ NoRead

Written(k, r) ==
    /\ auto_partage_df' = [auto_partage_df EXCEPT ![k] = r.auto]
    /\ auto_prod_df' = [auto_prod_df EXCEPT ![k] = r.auto_prod]
    /\ UNCHANGED <<df_prod, df_conso>>
    /\ Record(k, r)

Work(k) ==
    /\ k \notin done
    /\ Written(k, Iteration(df_prod[k], df_conso[k]))

NextPar == \E k \in 1..ParT : Work(k)

SpecPar == InitPar /\ [][NextPar]_vars

\* The sequential loop leaves what compute_metrics returns for the rows read.
SameTable(a, b) ==
    /\ Len(a) = Len(b)
    /\ \A i \in 1..Len(a) : \A x \in DOMAIN a[i] : a[i][x] = b[i][x]

SameResults(a, b) ==
    /\ \A p \in Producers : a.surplus_prod[p] = b.surplus_prod[p]
    /\ \A c \in Consumers : a.auto_partage_total[c] = b.auto_partage_total[c]
    /\ \A c \in Consumers : a.fourn_compl_total[c] = b.fourn_compl_total[c]
    /\ SameTable(a.auto_partage_df, b.auto_partage_df)
    /\ SameTable(a.auto_prod_df, b.auto_prod_df)

SequentialIsComputeMetrics == SameResults(Results, compute_metrics)

\* ------------------------------------------------------------ properties
\* The timestep of the last iteration, as the tables and the results show it.
ProdTotal == IntSum(df_prod[t], Producers)

Demand(c) == FromInt(df_conso[t][c])

SelfConsumption(c) == auto_partage_df[t][c]

SelfConsumptionSum == RSum(auto_partage_df[t], Consumers)

SurplusAttributed == RSum(it.surplus_p, Producers)

Percentage(c) == Get(consumer_percentages, c, 0)

PercentagesSum == IntSum([c \in Consumers |-> Percentage(c)], Consumers)

Conserved == RAdd(SelfConsumptionSum, SurplusAttributed) = FromInt(ProdTotal)

\* C1: under the Default policy, at every timestep with prod_total > 0 and
\* whatever the demands, the consumers' self-consumption plus the surplus
\* attributed to the producers equals prod_total.
C1_DefaultConservation ==
    (t # 0 /\ mode = "dynamique_defaut" /\ ProdTotal > 0) => Conserved

\* C2: under the Static policy with percentages summing to 100, at every
\* timestep with prod_total > 0 the consumers' self-consumption plus the
\* surplus attributed to the producers equals prod_total.
C2_StaticConservation ==
    (t # 0 /\ mode = "statique" /\ PercentagesSum = 100 /\ ProdTotal > 0) => Conserved

\* A Static timestep with percentages summing to 100 where one consumer
\* leaves surplus and another one needs complement.
C2_Witness ==
    /\ t # 0 /\ mode = "statique" /\ PercentagesSum = 100 /\ ProdTotal > 0
    /\ RLt(Zero, it.surplus_total)
    /\ \E c \in Consumers : RLt(Zero, it.compl[c])
    /\ Conserved

\* Row k of the tables.
ProdTotalAt(k) == IntSum(df_prod[k], Producers)

DemandAt(k, c) == FromInt(df_conso[k][c])

RECURSIVE SumUpTo(_, _, _)
SumUpTo(F(_, _), c, k) ==
    IF k = 0 THEN Zero ELSE RAdd(F(k, c), SumUpTo(F, c, k - 1))

StaticAllocation(k, c) == Rat(ProdTotalAt(k) * Percentage(c), 100)

StaticSelf(k, c) ==
    IF ProdTotalAt(k) = 0 THEN Zero
    ELSE IF RLe(DemandAt(k, c), StaticAllocation(k, c)) THEN DemandAt(k, c)
    ELSE StaticAllocation(k, c)

StaticToSurplus(k, c) ==
    IF ProdTotalAt(k) = 0 THEN Zero
    ELSE IF RLe(DemandAt(k, c), StaticAllocation(k, c))
    THEN RSub(StaticAllocation(k, c), DemandAt(k, c))
    ELSE Zero

StaticToComplement(k, c) ==
    IF ProdTotalAt(k) = 0 THEN Zero
    ELSE IF RLe(DemandAt(k, c), StaticAllocation(k, c)) THEN Zero
    ELSE RSub(DemandAt(k, c), StaticAllocation(k, c))

StaticExample ==
    /\ t # 0 /\ mode = "statique" /\ ProdTotal = 100
    /\ Percentage("c1") = 60 /\ Percentage("c2") = 40 /\ Percentage("c3") = 0
    /\ df_conso[t]["c1"] = 50 /\ df_conso[t]["c2"] = 50 /\ df_conso[t]["c3"] = 0

StaticExampleResult ==
    /\ SelfConsumption("c1") = FromInt(50) /\ it.compl["c1"] = Zero
    /\ SelfConsumption("c2") = FromInt(40) /\ it.compl["c2"] = FromInt(10)
    /\ it.surplus_total = FromInt(10)
    /\ SurplusAttributed = FromInt(10)

\* C3: under the Static policy each consumer's allocation is
\* prod_total * percentage / 100 with the one configured percentage at every
\* timestep of the run; demand <= allocation: self-consumption is the demand
\* and the rest of the allocation goes to the surplus; otherwise
\* self-consumption is the allocation and demand - allocation is added to the
\* consumer's complement.  With production 100, c1 (60 %, demand 50), c2
\* (40 %, demand 50): c1 50 and 10 to surplus, c2 40 and complement 10, total
\* surplus 10.
C3_StaticSplit ==
    (t # 0 /\ mode = "statique") =>
        /\ \A k \in 1..Len(df_conso) : \A c \in Consumers :
             ProdTotalAt(k) > 0 => auto_partage_df[k][c] = StaticSelf(k, c)
        /\ \A c \in Consumers :
             /\ fourn_compl_total[c] = SumUpTo(StaticToComplement, c, Len(df_conso))
             /\ auto_partage_total[c] = SumUpTo(StaticSelf, c, Len(df_conso))
        /\ ProdTotal > 0 =>
             /\ \A c \in Consumers : it.compl[c] = StaticToComplement(t, c)
             /\ it.surplus_total =
                  RSum([c \in Consumers |-> StaticToSurplus(t, c)], Consumers)
        /\ StaticExample => StaticExampleResult

\* The scenario of C3 has been computed.
C3_Witness == StaticExample /\ StaticExampleResult

FirstGroup == MinOf(Groups)

GroupDemand(pr) == FromInt(IntSum(df_conso[t], Members(pr)))

\* C4: under DynamicSimple, when the demand of the first group is at least
\* prod_total, every consumer of every later group gets zero
\* self-consumption at that timestep.
C4_PriorityOrder ==
    (/\ t # 0 /\ mode = "dynamique_simple" /\ ProdTotal > 0 /\ Groups # {}
     /\ RLe(FromInt(ProdTotal), GroupDemand(FirstGroup))) =>
        \A c \in DOMAIN consumer_priorities :
            consumer_priorities[c] # FirstGroup =>
                SelfConsumption(c) = Zero /\ it.auto[c] = Zero

\* The first group takes everything while a later group, on the static key,
\* has demand of its own.
C4_Witness ==
    /\ t # 0 /\ mode = "dynamique_simple" /\ ProdTotal > 0 /\ Groups # {}
    /\ RLe(FromInt(ProdTotal), GroupDemand(FirstGroup))
    /\ \E c \in DOMAIN consumer_priorities :
         /\ consumer_priorities[c] # FirstGroup
         /\ GroupMode(consumer_priorities[c]) = "static"
         /\ df_conso[t][c] > 0
         /\ SelfConsumption(c) = Zero
    /\ \E c \in Members(FirstGroup) : RLt(Zero, SelfConsumption(c))

PoolGroups == {it.pool[i].pr : i \in 1..Len(it.pool)}

\* C5: under DynamicSimple the pool starts at prod_total; each group, in
\* ascending priority order, is granted min(pool, group demand) and the pool
\* is decremented by that grant; the pool is never negative and never
\* increases; what is left after the last group is added to the surplus.
C5_Pool ==
    (t # 0 /\ mode = "dynamique_simple" /\ ProdTotal > 0) =>
        /\ Len(it.pool) > 0 => it.pool[1].before = FromInt(ProdTotal)
        /\ \A i \in 1..Len(it.pool) :
             LET g == it.pool[i] IN
             /\ g.pr \in Groups
             /\ g.group_conso = GroupDemand(g.pr)
             /\ g.prod_for_group = RMin(g.before, g.group_conso)
             /\ g.after = RSub(g.before, g.prod_for_group)
             /\ RLe(Zero, g.after)
             /\ RLe(g.after, g.before)
             /\ i > 1 => /\ g.before = it.pool[i - 1].after
                         /\ g.pr > it.pool[i - 1].pr
             /\ \A pr \in Groups \ PoolGroups : pr > g.pr
        /\ it.production_restante =
             IF Len(it.pool) = 0 THEN FromInt(ProdTotal)
             ELSE it.pool[Len(it.pool)].after
        \* a group the loop did not reach found the pool empty: its grant,
        \* min(0, demand), is nothing
        /\ \A pr \in Groups \ PoolGroups :
             /\ it.production_restante = Zero
             /\ \A c \in Members(pr) : SelfConsumption(c) = Zero
        /\ RLe(it.production_restante, it.surplus_total)
        /\ (\A pr \in PoolGroups : GroupMode(pr) # "static") =>
             it.surplus_total = it.production_restante
        /\ SurplusAttributed = it.surplus_total

\* Three groups were served in turn and something was left for the surplus.
C5_Witness ==
    /\ t # 0 /\ mode = "dynamique_simple"
    /\ Len(it.pool) = 3
    /\ RLt(it.pool[1].after, it.pool[1].before)
    /\ RLt(it.pool[2].after, it.pool[2].before)
    /\ RLt(Zero, it.production_restante)
    /\ RLe(it.production_restante, it.surplus_total)

\* C6: under DynamicSimple every consumer whose demand exceeds what was
\* allocated to it (then its self-consumption is the allocation) has
\* demand - allocation added to its complement, as under Default and Static.
C6_SimpleComplement ==
    (t # 0 /\ mode = "dynamique_simple" /\ ProdTotal > 0) =>
        \A c \in DOMAIN consumer_priorities :
            RLt(SelfConsumption(c), Demand(c)) =>
                it.compl[c] = RSub(Demand(c), SelfConsumption(c))

\* C7: at every timestep with prod_total > 0 the surplus attributed to
\* producer p, the amount added to surplus_prod[p], is
\* surplus_total * prod_p / prod_total; the attributions sum to surplus_total
\* and a producer with zero output is attributed nothing.
C7_SurplusAttribution ==
    [][IntSum(df_prod'[t'], Producers) > 0 =>
        /\ \A p \in Producers :
             /\ it'.surplus_p[p] =
                  Rat(it'.surplus_total[1] * df_prod'[t'][p],
                      it'.surplus_total[2] * IntSum(df_prod'[t'], Producers))
             /\ surplus_prod'[p] = RAdd(surplus_prod[p], it'.surplus_p[p])
             /\ df_prod'[t'][p] = 0 => surplus_prod'[p] = surplus_prod[p]
        /\ RAdd(it'.surplus_p["p1"], it'.surplus_p["p2"]) = it'.surplus_total]_vars

\* A surplus has been split between a producer with output and one without.
C7_Witness ==
    /\ t # 0 /\ RLt(Zero, it.surplus_total)
    /\ df_prod[t]["p1"] = 0 /\ df_prod[t]["p2"] > 0
    /\ it.surplus_p["p1"] = Zero
    /\ it.surplus_p["p2"] = it.surplus_total
    /\ surplus_prod["p2"] = it.surplus_total

\* C8: a timestep with prod_total = 0 changes no consumer's self-consumption
\* or complement total, records self-consumption 0 for the timestep and
\* attributes no surplus to any producer.
C8_NoProductionFrame ==
    [][IntSum(df_prod'[t'], Producers) = 0 =>
        /\ \A c \in Consumers :
             /\ auto_partage_total'[c] = auto_partage_total[c]
             /\ fourn_compl_total'[c] = fourn_compl_total[c]
             /\ auto_partage_df'[t'][c] = Zero
        /\ \A p \in Producers :
             /\ surplus_prod'[p] = surplus_prod[p]
             /\ auto_prod_df'[t'][p] = Zero]_vars

\* After a timestep that shared production, a timestep without production
\* met demand and left the totals as they were.
C8_Witness ==
    /\ t = 2 /\ ProdTotal = 0 /\ df_conso[2]["c1"] > 0
    /\ RLt(Zero, auto_partage_total["c1"])
    /\ RLt(Zero, fourn_compl_total["c1"])
    /\ auto_partage_total["c1"] = auto_partage_df[1]["c1"]
    /\ SelfConsumption("c1") = Zero

RECURSIVE DemandUpTo(_, _)
DemandUpTo(c, k) ==
    IF k = 0 THEN Zero ELSE RAdd(DemandAt(k, c), DemandUpTo(c, k - 1))

\* C9: under Default and Static, at every timestep (zero production
\* included) self-consumption and complement are >= 0 and the complement
\* recorded is demand - self-consumption when the demand exceeds the
\* allocation (the self-consumption is then the allocation) and 0 otherwise;
\* so each consumer's self-consumption total plus complement total is its
\* total demand.
C9_ComplementAccounting ==
    (t # 0 /\ mode \in {"statique", "dynamique_defaut"}) =>
        \A c \in Consumers :
            /\ RLe(Zero, SelfConsumption(c))
            /\ RLe(Zero, it.compl[c])
            /\ it.compl[c] =
                 IF RLt(SelfConsumption(c), Demand(c))
                 THEN RSub(Demand(c), SelfConsumption(c)) ELSE Zero
            /\ RAdd(auto_partage_total[c], fourn_compl_total[c]) =
                 DemandUpTo(c, Len(df_conso))

Hours(first, n) == [i \in 1..n |-> first + i - 1]

Tables(Rows) ==
    UNION {{[index |-> Hours(first, n), rows |-> r] :
                first \in 1..(AlignHours - n + 1), r \in [1..n -> Rows]} :
           n \in 1..AlignLen}

Max(a, b) == IF a >= b THEN a ELSE b

Min(a, b) == IF a <= b THEN a ELSE b

IndexMin(df) == df.index[1]

IndexMax(df) == df.index[Len(df.index)]

\* min_time taken as the earlier of the two first hours.
min_time_earliest == Min(IndexMin(consumers_df), IndexMin(producers_df))

min_time == Max(IndexMin(consumers_df), IndexMin(producers_df))

max_time == Min(IndexMax(consumers_df), IndexMax(producers_df))

\* Loc that leaves out the row at hi.
LocHalfOpen(df, lo, hi) ==
    [index |-> SelectSeq(df.index, LAMBDA h : lo <= h /\ h < hi),
     rows |-> SubSeq(df.rows, Max(1, lo - df.index[1] + 1),
                     Min(Len(df.rows), hi - df.index[1]))]

\* df.loc[lo : hi] on an hourly index without holes
Loc(df, lo, hi) ==
    [index |-> SelectSeq(df.index, LAMBDA h : lo <= h /\ h <= hi),
     rows |-> SubSeq(df.rows, Max(1, lo - df.index[1] + 1),
                     Min(Len(df.rows), hi - df.index[1] + 1))]

NoOverlap == "ERROR: no temporal overlap"

InitAlign ==
    /\ \E cfg \in ParConfigs :
         /\ mode = cfg[1]
         /\ consumer_percentages = cfg[2]
         /\ consumer_priorities = cfg[3]
         /\ consumer_group_keys = cfg[4]
    /\ df_prod = <<>>
    /\ df_conso = <<>>
    /\ done = {}
    /\ surplus_prod = ZeroProd
    /\ auto_partage_total = ZeroConso
    /\ fourn_compl_total = ZeroConso
    /\ auto_partage_df = <<>>
    /\ auto_prod_df = <<>>
    /\ t = 0
    /\ it = NoIteration
    /\ points_consumers = <<>>
    /\ points_producers = <<>>
    /\ consumers_df \in Tables(ConsoRows)
    /\ producers_df \in Tables(ProdRows)
    /\ summary = [time_range |-> <<>>, alignment_status |-> "OK", errors |-> <<>>]
    /\ NoCurve
    /\ NoRead

Returned(c_df, p_df, s) ==
    /\ consumers_df' = c_df
    /\ producers_df' = p_df
    /\ summary' = s
    /\ df_conso' = c_df.rows
    /\ df_prod' = p_df.rows
    /\ auto_partage_df' = [i \in 1..Len(c_df.rows) |-> ZeroConso]
    /\ auto_prod_df' = [i \in 1..Len(p_df.rows) |-> ZeroProd]
    /\ UNCHANGED <<config, done, surplus_prod, auto_partage_total, fourn_compl_total,
                   t, it, points_consumers, points_producers, curveVars, readVars>>

\* The time ranges do not meet: the tables are returned as they are.
AlignNoOverlap ==
    /\ summary.alignment_status = "OK"
    /\ min_time > max_time
    /\ Returned(consumers_df, producers_df,
           [summary EXCEPT !.alignment_status = NoOverlap,
               !.errors = Append(@, "Consumer and producer time ranges do not overlap")])

\* The time ranges meet: both tables are cut to the intersection.
AlignTruncate ==
    /\ summary.alignment_status = "OK"
    /\ min_time <= max_time
    /\ Returned(Loc(consumers_df, min_time, max_time),
                Loc(producers_df, min_time, max_time),
           [summary EXCEPT !.alignment_status = "Aligned",
               !.time_range = <<min_time, max_time>>])

Returns(r) ==
    /\ surplus_prod' = r.surplus_prod
    /\ auto_partage_total' = r.auto_partage_total
    /\ fourn_compl_total' = r.fourn_compl_total
    /\ auto_partage_df' = r.auto_partage_df
    /\ auto_prod_df' = r.auto_prod_df
    /\ done' = 1..n_rows
    /\ t' = n_rows
    /\ UNCHANGED <<config, df_prod, df_conso, it, aggVars, curveVars, readVars>>

\* compute_metrics(df_prod, df_conso, mode) on the tables handed over
Bilan ==
    /\ summary.alignment_status # "OK"
    /\ done = {}
    /\ Returns(compute_metrics)

NextAlign == AlignNoOverlap \/ AlignTruncate \/ Bilan

SpecAlign == InitAlign /\ [][NextAlign]_vars

\* The hours of the rows the loop has paired.
PairedHours == {<<producers_df.index[k], consumers_df.index[k]>> : k \in done}

AllZero ==
    /\ \A p \in Producers : surplus_prod[p] = Zero
    /\ \A c \in Consumers : auto_partage_total[c] = Zero /\ fourn_compl_total[c] = Zero
    /\ \A k \in 1..Len(auto_partage_df) : \A c \in Consumers : auto_partage_df[k][c] = Zero
    /\ \A k \in 1..Len(auto_prod_df) : \A p \in Producers : auto_prod_df[k][p] = Zero

\* C11: once compute_metrics has run on two tables without temporal overlap,
\* every total and every cell of the two per-timestep tables is zero, the
\* production of an hour never being allocated to the demand of another hour.
C11_NoOverlapAllZero ==
    (summary # None /\ summary.alignment_status = NoOverlap /\ done # {})
        => AllZero /\ \A pair \in PairedHours : pair[1] = pair[2]

\* C12: under DynamicSimple, at a timestep where production is left over
\* once every group has been served, every consumer, with or without a
\* configured priority, has had its whole demand accounted for as
\* self-consumption plus complement.
C12_NoPriorityTakesPart ==
    (mode = "dynamique_simple" /\ t > 0 /\ ~it.cont
        /\ RLt(Zero, it.production_restante))
        => \A c \in Consumers : RAdd(it.auto[c], it.compl[c]) = Demand(c)

\* C12 holds of the consumers that have a priority.
PrioritisedTakePart ==
    (mode = "dynamique_simple" /\ t > 0 /\ ~it.cont
        /\ RLt(Zero, it.production_restante))
        => \A c \in DOMAIN consumer_priorities : RAdd(it.auto[c], it.compl[c]) = Demand(c)

\* ------------------------------------------------------------ impute_by_week_shift
\* A curve is a DataFrame with a DatetimeIndex, here in hours, and a column
\* "value"; a missing value is NaN. A sample may also have no row at all.
NaN == -1000000

Week == 24 * 7

Day == 24

\* df[value_col] at the timestamp ts, NaN where the index has no such row
ValueAt(index, value, ts) ==
    IF \E i \in 1..Len(index) : index[i] = ts
    THEN value[CHOOSE i \in 1..Len(index) : index[i] = ts]
    ELSE NaN

\* The rows of a curve, sorted by timestamp: of the timestamps of Grid, those
\* that have a row, with the value Cell gives them.
RECURSIVE SortedSeq(_)
SortedSeq(S) ==
    IF S = {} THEN <<>>
    ELSE Append(SortedSeq(S \ {CHOOSE x \in S : \A y \in S : y <= x}),
                CHOOSE x \in S : \A y \in S : y <= x)

Frame(index, Cell(_)) ==
    [index |-> index, value |-> [i \in 1..Len(index) |-> Cell(index[i])]]

\* One sample per week: absent, NaN or a value that tells its week.
WeekCurves ==
    {Frame(SortedSeq({Week * w : w \in {w \in 0..ImputeWeeks : status[w] # "absent"}}),
           LAMBDA ts : IF status[ts \div Week] = "nan" THEN NaN ELSE 10 + ts \div Week) :
        status \in [0..ImputeWeeks -> {"absent", "nan", "present"}]}

\* Hourly samples of the day GapDay and of the same day one week later: a
\* day is absent, all NaN, or present with values that tell their hour.
DayHours(d) == {Day * d + h : h \in 0..(Day - 1)}

DayCurves ==
    {Frame(SortedSeq(UNION {DayHours(d) : d \in {d \in {GapDay, GapDay + 7} : status[d] # "absent"}}),
           LAMBDA ts : IF status[ts \div Day] = "nan" THEN NaN ELSE ts) :
        status \in [{GapDay, GapDay + 7} -> {"absent", "nan", "present"}]}

ImputeCurves == WeekCurves \cup DayCurves

\* for w in range(1, max_weeks + 1): offsets.append(-w); offsets.append(+w)
Offsets(mw) == [i \in 1..(2 * mw) |-> IF i % 2 = 1 THEN -((i + 1) \div 2) ELSE i \div 2]

Missing(value) == {i \in 1..Len(value) : value[i] = NaN}

\* shifted = s.shift(off * 24 * 7, freq="H"); shifted.get(ts, np.nan): the
\* index of s is moved by off weeks, so the row now at ts is the row s has at
\* ts - off weeks.
ShiftedGet(index, s, off, ts) == ValueAt(index, s, ts - off * Week)

\* for ts in list(missing_idx): the rows still missing take the value shifted
\* has at their timestamp, when it has one.
FillPass(d, s, off) ==
    [index |-> d.index,
     value |-> [i \in 1..Len(d.index) |->
                 IF d.value[i] = NaN THEN ShiftedGet(d.index, s, off, d.index[i])
                 ELSE d.value[i]],
     _imputed |-> [i \in 1..Len(d.index) |->
                 IF d.value[i] = NaN /\ ShiftedGet(d.index, s, off, d.index[i]) # NaN
                 THEN TRUE ELSE d._imputed[i]],
     _impute_source |-> [i \in 1..Len(d.index) |->
                 IF d.value[i] = NaN /\ ShiftedGet(d.index, s, off, d.index[i]) # NaN
                 THEN off ELSE d._impute_source[i]]]

\* s = df[value_col] is taken before the loop. Where the Series is a view of
\* the frame it shows the values df.at has set since; under copy-on-write it
\* keeps the values it had.
SeriesS(d, orig, cow) == IF cow THEN orig ELSE d.value

\* for off in offsets, from the i-th offset onwards
RECURSIVE OffsetLoop(_, _, _, _, _)
OffsetLoop(d, orig, cow, offsets, i) ==
    IF i > Len(offsets) THEN d
    ELSE IF Missing(d.value) = {} THEN d
    ELSE OffsetLoop(FillPass(d, SeriesS(d, orig, cow), offsets[i]), orig, cow, offsets, i + 1)

\* df["_imputed"] = False; df["_impute_source"] = 0
Prepared(df) ==
    [index |-> df.index, value |-> df.value,
     _imputed |-> [i \in 1..Len(df.index) |-> FALSE],
     _impute_source |-> [i \in 1..Len(df.index) |-> 0]]

\* round(100.0 * imputed_count / (len(df) if len(df) else 1), 2), in hundredths
ImputedPct(imputed_count, n) ==
    (2 * 10000 * imputed_count + (IF n = 0 THEN 1 ELSE n)) \div (2 * (IF n = 0 THEN 1 ELSE n))

\* The report of the early return: it has no key "rejected".
EarlyReport(df) ==
    [total_points |-> Len(df.index), missing_before |-> 0, missing_after |-> 0,
     imputed_count |-> 0, imputed_pct |-> 0]

\* rejected = total_missing_after > 0
RejectedFlag(total_missing_after) == total_missing_after > 0

FinalReport(df, d, imputed_count) ==
    [total_points |-> Len(d.index),
     missing_before |-> Cardinality(Missing(df.value)),
     missing_after |-> Cardinality(Missing(d.value)),
     imputed_count |-> imputed_count,
     imputed_pct |-> ImputedPct(imputed_count, Len(d.index)),
     rejected |-> RejectedFlag(Cardinality(Missing(d.value)))]

Imputed(df, d) ==
    [df |-> d,
     report |-> FinalReport(df, d,
         Cardinality({i \in 1..Len(d.index) : df.value[i] = NaN /\ d._imputed[i]}))]

\* impute_by_week_shift(df, "value", mw), on a frame whose index is sorted
impute_by_week_shift(df, mw, cow) ==
    IF Missing(df.value) = {}
    THEN [df |-> Prepared(df), report |-> EarlyReport(df)]
    ELSE Imputed(df, OffsetLoop(Prepared(df), df.value, cow, Offsets(mw), 1))

InitImpute ==
    /\ mode = "dynamique_defaut"
    /\ consumer_percentages = <<>>
    /\ consumer_priorities = <<>>
    /\ consumer_group_keys = <<>>
    /\ df_prod = <<>>
    /\ df_conso = <<>>
    /\ done = {}
    /\ surplus_prod = ZeroProd
    /\ auto_partage_total = ZeroConso
    /\ fourn_compl_total = ZeroConso
    /\ auto_partage_df = <<>>
    /\ auto_prod_df = <<>>
    /\ t = 0
    /\ it = NoIteration
    /\ NoAggregation
    /\ pandas \in {[copy_on_write |-> b] : b \in BOOLEAN}
    /\ curve \in ImputeCurves
    /\ target_timestep = Unset
    /\ max_weeks \in 1..MaxMaxWeeks
    /\ resampled = None
    /\ df_imputed = None
    /\ impute_report = None
    /\ validation = None
    /\ stage = "impute"
    /\ NoRead

ImputeReturns(r) ==
    /\ df_imputed' = r.df
    /\ impute_report' = r.report
    /\ stage' = "imputed"
    /\ UNCHANGED <<allocVars, readVars, aggVars, pandas, curve, target_timestep, max_weeks,
                   resampled, validation>>

\* The call on a frame without NaN: the early return.
ImputeNothing ==
    /\ stage = "impute"
    /\ Missing(curve.value) = {}
    /\ ImputeReturns(impute_by_week_shift(curve, max_weeks, pandas.copy_on_write))

\* The call on a frame with NaN: the search over the offsets.
ImputeSearch ==
    /\ stage = "impute"
    /\ Missing(curve.value) # {}
    /\ ImputeReturns(impute_by_week_shift(curve, max_weeks, pandas.copy_on_write))

NextImpute == ImputeNothing \/ ImputeSearch

SpecImpute == InitImpute /\ [][NextImpute]_vars

\* The value the curve given to the imputer has at ts, NaN where it has none.
Given(ts) == ValueAt(curve.index, curve.value, ts)

\* The place of the offset k in the order -1, +1, -2, +2, ...
Rank(k) == IF k < 0 THEN 2 * (-k) - 1 ELSE 2 * k

\* C13: every sample the imputer has filled records an offset k of the
\* search order, the sample k weeks after it (before it, for a negative k)
\* has a value in the curve given, no offset earlier in the order has one,
\* and the filled value is that value.
C13_FirstOffset ==
    stage = "imputed" =>
        \A i \in 1..Len(df_imputed.index) :
            df_imputed._imputed[i] =>
                /\ df_imputed._impute_source[i] # 0
                /\ Rank(df_imputed._impute_source[i]) <= 2 * max_weeks
                /\ Given(df_imputed.index[i] + df_imputed._impute_source[i] * Week) # NaN
                /\ df_imputed.value[i] =
                       Given(df_imputed.index[i] + df_imputed._impute_source[i] * Week)
                /\ \A j \in 1..(Rank(df_imputed._impute_source[i]) - 1) :
                       Given(df_imputed.index[i] + Offsets(max_weeks)[j] * Week) = NaN

\* The statement of C13 with the direction of the offsets reversed, for the
\* samples filled from a value of the curve given.
MirroredFirstOffset ==
    (stage = "imputed" /\ pandas.copy_on_write) =>
        \A i \in 1..Len(df_imputed.index) :
            df_imputed._imputed[i] =>
                /\ Rank(df_imputed._impute_source[i]) <= 2 * max_weeks
                /\ df_imputed.value[i] # NaN
                /\ df_imputed.value[i] =
                       Given(df_imputed.index[i] - df_imputed._impute_source[i] * Week)
                /\ \A j \in 1..(Rank(df_imputed._impute_source[i]) - 1) :
                       Given(df_imputed.index[i] - Offsets(max_weeks)[j] * Week) = NaN

\* The hourly series that has no row for the day GapDay and every row of the
\* same day one week later.
DayGapCurve ==
    /\ Len(curve.index) = Day
    /\ \A i \in 1..Day : curve.index[i] = Day * (GapDay + 7) + i - 1 /\ curve.value[i] # NaN

\* C14: on the series whose day D has no rows and whose day D+7 is complete,
\* the report counts 24 missing before, 24 imputed and none missing after,
\* is not rejected, and the 24 samples of day D are filled with offset +1.
C14_DayGap ==
    (stage = "imputed" /\ DayGapCurve) =>
        /\ impute_report.missing_before = 24
        /\ impute_report.imputed_count = 24
        /\ impute_report.missing_after = 0
        /\ "rejected" \in DOMAIN impute_report
        /\ ~impute_report.rejected
        /\ \A ts \in DayHours(GapDay) :
              \E i \in 1..Len(df_imputed.index) :
                  /\ df_imputed.index[i] = ts
                  /\ df_imputed._imputed[i]
                  /\ df_imputed._impute_source[i] = 1

\* A timestamp of the weekly grid, between the first and the last row of the
\* curve, that has no row and no value within max_weeks weeks on either side.
UncoverableGap ==
    /\ curve \in WeekCurves
    /\ \E w \in 0..ImputeWeeks :
          /\ Len(curve.index) > 0
          /\ curve.index[1] < Week * w
          /\ Week * w < curve.index[Len(curve.index)]
          /\ \A i \in 1..Len(curve.index) : curve.index[i] # Week * w
          /\ \A k \in 1..max_weeks :
                Given(Week * (w - k)) = NaN /\ Given(Week * (w + k)) = NaN

\* C15: every report has the key rejected, true exactly when missing_after
\* is positive; and a gap no weekly shift can cover leaves missing_after
\* positive, imputed_pct under 100 and rejected true.
C15_Rejection ==
    stage = "imputed" =>
        /\ "rejected" \in DOMAIN impute_report
        /\ impute_report.rejected <=> impute_report.missing_after > 0
        /\ UncoverableGap =>
              /\ impute_report.missing_after > 0
              /\ impute_report.imputed_pct < 10000
              /\ impute_report.rejected

\* What the code does keep of C15: a report that has the key rejected has it
\* true exactly when missing_after is positive.
RejectedWhenPresent ==
    (stage = "imputed" /\ "rejected" \in DOMAIN impute_report) =>
        (impute_report.rejected <=> impute_report.missing_after > 0)

\* ------------------------------------------------------------ resample_curve
\* The timestamps of the curves given to the resampler are in minutes.
\* Values are multiples of 24, so that every linear interpolation between
\* two of them over the grids used here is a whole number.
SourceSteps == {5, 15, 30, 60}

Targets == {"PT15M", "PT30M", "PT60M"}

\* A regular curve: ResampleRows rows, step minutes apart, from first on.
RegularCurves ==
    {[index |-> [i \in 1..ResampleRows |-> first + (i - 1) * step], value |-> v] :
        step \in SourceSteps, first \in {0, 30}, v \in [1..ResampleRows -> {NaN, 24, 48}]}

\* freq_map.get(target_timestep, "60min")
target_freq(target) ==
    CASE target = "PT15M" -> "15min"
      [] target = "PT30M" -> "30min"
      [] OTHER -> "60min"

\* The step of an index that has at least three rows, all the same distance
\* apart; 0 for any other index.
RegularStep(index) ==
    IF Len(index) >= 3
        /\ \A i \in 2..Len(index) : index[i] - index[i - 1] = index[2] - index[1]
        /\ index[2] - index[1] > 0
    THEN index[2] - index[1]
    ELSE 0

\* pd.infer_freq(datetime_index): the alias of the step, as the installed
\* pandas spells it, None when the index is not regular.
detect_timestep(index, aliases) ==
    CASE RegularStep(index) = 0 -> Unset
      [] RegularStep(index) = 60 -> IF aliases = "new" THEN "h" ELSE "H"
      [] RegularStep(index) = 30 -> IF aliases = "new" THEN "30min" ELSE "30T"
      [] RegularStep(index) = 15 -> IF aliases = "new" THEN "15min" ELSE "15T"
      [] RegularStep(index) = 5 -> IF aliases = "new" THEN "5min" ELSE "5T"
      [] OTHER -> "other"

\* freq_minutes.get(name, 60)
freq_minutes(name) ==
    CASE name \in {"PT15M", "15min"} -> 15
      [] name \in {"PT30M", "30min"} -> 30
      [] name \in {"PT60M", "PT1H", "h", "60min", "1h"} -> 60
      [] OTHER -> 60

\* method = "aggregate" if target_min >= source_min else "interpolate"
AutoMethod(source_timestep, target, index) ==
    IF freq_minutes(target_freq(target)) >= freq_minutes(source_timestep)
    THEN "aggregate" ELSE "interpolate"

\* The start of the window of T minutes that holds ts (windows start at
\* midnight).
Floor(ts, T) == (ts \div T) * T

\* The labels of df.resample(T): one per window from the first row's to the
\* last row's.
Binner(index, T) ==
    IF Len(index) = 0 THEN <<>>
    ELSE [i \in 1..((Floor(index[Len(index)], T) - Floor(index[1], T)) \div T + 1) |->
             Floor(index[1], T) + (i - 1) * T]

RECURSIVE SumOver(_, _)
SumOver(value, S) ==
    IF S = {} THEN 0
    ELSE SumOver(value, S \ {CHOOSE i \in S : TRUE}) + value[CHOOSE i \in S : TRUE]

\* .agg({"value": "sum"}): NaN are skipped and an empty window sums to 0
WindowSum(df, T, b) ==
    SumOver(df.value, {i \in 1..Len(df.index) :
                          b <= df.index[i] /\ df.index[i] < b + T /\ df.value[i] # NaN})

Aggregated(df, binner, T) ==
    [index |-> binner, value |-> [j \in 1..Len(binner) |-> WindowSum(df, T, binner[j])]]

\* The last row before j, and the first after j, that has a value (0: none).
ValidBefore(v, j) ==
    IF \E p \in 1..(j - 1) : v[p] # NaN
    THEN CHOOSE p \in 1..(j - 1) : v[p] # NaN /\ \A q \in (p + 1)..(j - 1) : v[q] = NaN
    ELSE 0

ValidAfter(v, j) ==
    IF \E p \in (j + 1)..Len(v) : v[p] # NaN
    THEN CHOOSE p \in (j + 1)..Len(v) : v[p] # NaN /\ \A q \in (j + 1)..(p - 1) : v[q] = NaN
    ELSE 0

Between(v, j, p, q) ==
    IF p = 0 THEN NaN
    ELSE IF q = 0 THEN v[p]
    ELSE v[p] + ((v[q] - v[p]) * (j - p)) \div (q - p)

\* .interpolate(method="linear") after the rows have been put on the grid: a
\* NaN between two values is on the line between them, a NaN after the last
\* value repeats it, a NaN before the first value stays.
Linear(v) ==
    [j \in 1..Len(v) |->
        IF v[j] # NaN THEN v[j] ELSE Between(v, j, ValidBefore(v, j), ValidAfter(v, j))]

Interpolated(df, binner) ==
    [index |-> binner,
     value |-> Linear([j \in 1..Len(binner) |-> ValueAt(df.index, df.value, binner[j])])]

\* resampled.fillna(0)
FillNa0(df) ==
    [index |-> df.index,
     value |-> [j \in 1..Len(df.index) |-> IF df.value[j] = NaN THEN 0 ELSE df.value[j]]]

Resampled(df, target, source_timestep, method) ==
    [df |-> FillNa0(IF method = "aggregate"
                    THEN Aggregated(df, Binner(df.index, freq_minutes(target_freq(target))),
                                    freq_minutes(target_freq(target)))
                    ELSE Interpolated(df, Binner(df.index, freq_minutes(target_freq(target))))),
     source_timestep |-> source_timestep,
     method |-> method]

Detected(df, target, source_timestep) ==
    IF source_timestep = target
    THEN [df |-> df, source_timestep |-> source_timestep, method |-> "No change"]
    ELSE Resampled(df, target, source_timestep,
                   AutoMethod(source_timestep, target, df.index))

\* resample_curve(df, target_timestep), method "auto"
resample_curve(df, target, aliases) ==
    Detected(df, target, detect_timestep(df.index, aliases))

InitResample ==
    /\ mode = "dynamique_defaut"
    /\ consumer_percentages = <<>>
    /\ consumer_priorities = <<>>
    /\ consumer_group_keys = <<>>
    /\ df_prod = <<>>
    /\ df_conso = <<>>
    /\ done = {}
    /\ surplus_prod = ZeroProd
    /\ auto_partage_total = ZeroConso
    /\ fourn_compl_total = ZeroConso
    /\ auto_partage_df = <<>>
    /\ auto_prod_df = <<>>
    /\ t = 0
    /\ it = NoIteration
    /\ NoAggregation
    /\ pandas \in {[aliases |-> a] : a \in {"new", "old"}}
    /\ curve \in RegularCurves
    /\ target_timestep \in Targets
    /\ max_weeks = 0
    /\ resampled = None
    /\ df_imputed = None
    /\ impute_report = None
    /\ validation = None
    /\ stage = "resample"
    /\ NoRead

ResampleReturns(r) ==
    /\ resampled' = r
    /\ stage' = "resampled"
    /\ UNCHANGED <<allocVars, readVars, aggVars, pandas, curve, target_timestep, max_weeks,
                   df_imputed, impute_report, validation>>

\* The call that ends in the summation over the target windows.
ResampleAggregate ==
    /\ stage = "resample"
    /\ resample_curve(curve, target_timestep, pandas.aliases).method = "aggregate"
    /\ ResampleReturns(resample_curve(curve, target_timestep, pandas.aliases))

\* The call that ends in the linear interpolation on the target grid.
ResampleInterpolate ==
    /\ stage = "resample"
    /\ resample_curve(curve, target_timestep, pandas.aliases).method = "interpolate"
    /\ ResampleReturns(resample_curve(curve, target_timestep, pandas.aliases))

NextResample == ResampleAggregate \/ ResampleInterpolate

SpecResample == InitResample /\ [][NextResample]_vars

SameFrame(a, b) ==
    /\ Len(a.index) = Len(b.index)
    /\ \A i \in 1..Len(a.index) : a.index[i] = b.index[i] /\ a.value[i] = b.value[i]

\* C17: a curve whose rows are already one target step apart comes back from
\* resample_curve with the same timestamps and the same values, NaN included.
C17_Idempotent ==
    (stage = "resampled"
        /\ RegularStep(curve.index) = freq_minutes(target_freq(target_timestep)))
        => SameFrame(resampled.df, curve)

\* What the code keeps of C17: a curve already on the target grid, its rows
\* at the start of the target windows and none of them NaN, comes back as is.
IdempotentOnGrid ==
    (stage = "resampled"
        /\ RegularStep(curve.index) = freq_minutes(target_freq(target_timestep))
        /\ \A i \in 1..Len(curve.index) :
              /\ curve.value[i] # NaN
              /\ Floor(curve.index[i], RegularStep(curve.index)) = curve.index[i])
        => SameFrame(resampled.df, curve)

\* C18: with method auto, a regular curve of step 5, 15, 30 or 60 minutes is
\* summed over the target windows when the target step is at least its step,
\* and interpolated linearly when the target step is smaller.
C18_AutoMethod ==
    stage = "resampled" =>
        resampled.method =
            (IF freq_minutes(target_freq(target_timestep)) >= RegularStep(curve.index)
             THEN "aggregate" ELSE "interpolate")

\* ------------------------------------------------------------ validate_curve
\* The timestamps of the curves given to the validator are in hours; the
\* clock of the machine reads Now.
Now == 5

ValidateStamps == {0, 1, 4, 9}

ValidateValues == {NaN, -5, 7}

\* Any frame of at most ValidateRows rows: the index in any order, with or
\* without duplicates.
ValidateCurves ==
    UNION {{[index |-> ix, value |-> v] : ix \in [1..n -> ValidateStamps],
                                          v \in [1..n -> ValidateValues]} :
           n \in 0..ValidateRows}

\* df.index.duplicated().sum(): the rows whose timestamp an earlier row has
Duplicated(index) == {i \in 1..Len(index) : \E j \in 1..(i - 1) : index[j] = index[i]}

\* is_monotonic_increasing asking for strictly increasing timestamps.
is_strictly_increasing(index) == \A i \in 2..Len(index) : index[i - 1] < index[i]

\* df.index.is_monotonic_increasing: equal neighbours are allowed
is_monotonic_increasing(index) == \A i \in 2..Len(index) : index[i - 1] <= index[i]

\* check_continuity(index, 2): the rows more than max_gap_hours after the
\* row before them
Gaps(index, max_gap_hours) ==
    IF Len(index) < 2 THEN {}
    ELSE {i \in 2..Len(index) : index[i] - index[i - 1] > max_gap_hours}

Warning(kind, count) == [kind |-> kind, count |-> count]

\* report["warnings"].append(...) when the count is positive
Warn(warnings, kind, count) ==
    IF count > 0 THEN Append(warnings, Warning(kind, count)) ELSE warnings

\* One more warning per gap, after the warning that counts them.
RECURSIVE GapLines(_, _)
GapLines(warnings, n) ==
    IF n = 0 THEN warnings ELSE Append(GapLines(warnings, n - 1), Warning("gap", n))

WarnGaps(warnings, n) ==
    IF n > 0 THEN GapLines(Append(warnings, Warning("gaps", n)), n) ELSE warnings

Negative(value) == {i \in 1..Len(value) : value[i] # NaN /\ value[i] < 0}

Future(index) == {i \in 1..Len(index) : index[i] > Now}

Warnings(df) ==
    Warn(WarnGaps(Warn(Warn(Warn(<<>>,
            "duplicates", Cardinality(Duplicated(df.index))),
            "nan", Cardinality(Missing(df.value))),
            "future", Cardinality(Future(df.index))),
            Cardinality(Gaps(df.index, 2))),
         "negative", Cardinality(Negative(df.value)))

Checked(df, monotonic) ==
    [is_valid |-> monotonic,
     errors |-> IF monotonic THEN <<>>
                ELSE <<"Timestamps are not monotonically increasing">>,
     warnings |-> Warnings(df)]

\* validate_curve(df)
validate_curve(df) ==
    IF df = None
    THEN [is_valid |-> FALSE, errors |-> <<"DataFrame is empty">>, warnings |-> <<>>]
    ELSE IF Len(df.index) = 0
    THEN [is_valid |-> FALSE, errors |-> <<"DataFrame is empty">>, warnings |-> <<>>]
    ELSE Checked(df, is_monotonic_increasing(df.index))

InitValidate ==
    /\ mode = "dynamique_defaut"
    /\ consumer_percentages = <<>>
    /\ consumer_priorities = <<>>
    /\ consumer_group_keys = <<>>
    /\ df_prod = <<>>
    /\ df_conso = <<>>
    /\ done = {}
    /\ surplus_prod = ZeroProd
    /\ auto_partage_total = ZeroConso
    /\ fourn_compl_total = ZeroConso
    /\ auto_partage_df = <<>>
    /\ auto_prod_df = <<>>
    /\ t = 0
    /\ it = NoIteration
    /\ NoAggregation
    /\ pandas = None
    /\ curve \in ValidateCurves \cup {None}
    /\ target_timestep = Unset
    /\ max_weeks = 0
    /\ resampled = None
    /\ df_imputed = None
    /\ impute_report = None
    /\ validation = None
    /\ stage = "validate"
    /\ NoRead

ValidateReturns(r) ==
    /\ validation' = r
    /\ stage' = "validated"
    /\ UNCHANGED <<allocVars, readVars, aggVars, pandas, curve, target_timestep, max_weeks,
                   resampled, df_imputed, impute_report>>

\* The call that returns at once: there is no frame, or it has no row.
ValidateEmpty ==
    /\ stage = "validate"
    /\ \/ curve = None
       \/ curve # None /\ Len(curve.index) = 0
    /\ ValidateReturns(validate_curve(curve))

\* The call that goes through every check.
ValidateChecks ==
    /\ stage = "validate"
    /\ curve # None
    /\ Len(curve.index) > 0
    /\ ValidateReturns(validate_curve(curve))

NextValidate == ValidateEmpty \/ ValidateChecks

SpecValidate == InitValidate /\ [][NextValidate]_vars

\* The two fatal conditions of the claim, on the curve inspected.
EmptySeries == IF curve = None THEN TRUE ELSE Len(curve.index) = 0

NotMonotonic ==
    IF curve = None THEN FALSE
    ELSE \E i \in 2..Len(curve.index) : curve.index[i] < curve.index[i - 1]

\* C19: the call of validate_curve leaves the curve as it was; the report has
\* is_valid false exactly when the series is empty or its timestamps are not
\* monotonically increasing, and exactly when the errors list is not empty,
\* whatever the warnings (duplicates, NaN, future timestamps, gaps, negative
\* values) it carries.
C19_Validation ==
    [][stage' = "validated" =>
          /\ curve' = curve
          /\ validation'.is_valid \in BOOLEAN
          /\ ~validation'.is_valid <=> (EmptySeries \/ NotMonotonic)
          /\ ~validation'.is_valid <=> validation'.errors # <<>>]_vars

\* A curve with a duplicate timestamp, a NaN, a negative value, a future
\* timestamp and a gap of more than two hours has been found valid, with the
\* five kinds of warning.
C19_Witness ==
    /\ stage = "validated"
    /\ validation.is_valid
    /\ validation.errors = <<>>
    /\ \A kind \in {"duplicates", "nan", "future", "gaps", "negative"} :
          \E i \in 1..Len(validation.warnings) : validation.warnings[i].kind = kind

\* ------------------------------------------------------------ build_dataframes
\* A point carries a name (nom, "" when it has none) and a curve: None, a
\* DataFrame, or the dict process_curve has made. The series of a frame is
\* told by its first hour, its number of rows and a value no other actor
\* has; a frame may also have no numeric column.
Series(first, n, value, numeric) ==
    [first |-> first, n |-> n, value |-> value, numeric |-> numeric]

Courbes(value) ==
    { [kind |-> "none"],
      [kind |-> "frame", df |-> Series(1, 2, value, TRUE)],
      [kind |-> "dict", df |-> None, impute_report |-> None],
      [kind |-> "dict", df |-> Series(1, 2, value, TRUE),
       impute_report |-> [missing_after |-> 1, rejected |-> TRUE]],
      [kind |-> "dict", df |-> Series(1, 2, value, TRUE),
       impute_report |-> [missing_after |-> 0, rejected |-> FALSE]],
      [kind |-> "dict", df |-> Series(3, 1, value, TRUE),
       impute_report |-> [missing_after |-> 0, rejected |-> FALSE]],
      [kind |-> "dict", df |-> Series(1, 2, value, TRUE),
       impute_report |-> [missing_after |-> 0]],
      [kind |-> "dict", df |-> Series(1, 0, value, TRUE),
       impute_report |-> [missing_after |-> 0, rejected |-> FALSE]],
      [kind |-> "dict", df |-> Series(1, 2, value, FALSE),
       impute_report |-> [missing_after |-> 0, rejected |-> FALSE]] }

Noms == {"A", ""}

\* The lists of at most n points; the i-th point of a list has the value
\* base + i.
PointLists(base, n) ==
    UNION {{[i \in 1..k |-> [nom |-> nom[i], courbe |-> kind[i]]] :
                nom \in [1..k -> Noms],
                kind \in {f \in [1..k -> UNION {Courbes(base + i) : i \in 1..k}] :
                            \A i \in 1..k : f[i] \in Courbes(base + i)}} :
           k \in 0..n}

\* point.get("nom") or point.get("pdl") or f"{role}_{len(ts)}"
PdlName(point, role, ts) ==
    IF point.nom # "" THEN point.nom
    ELSE role \o "_" \o ToString(Cardinality(DOMAIN ts))

Message(role, pdl_name, what) == role \o " '" \o pdl_name \o "': " \o what

\* Errored that appends nothing.
Unreported(acc, message) == acc

Errored(acc, message) == [acc EXCEPT !.errors = Append(@, message)]

\* IsRejected that never rejects.
IsRejectedNever(report) == FALSE

\* impute_report.get("rejected", False)
IsRejected(report) ==
    IF "rejected" \in DOMAIN report THEN report.rejected ELSE FALSE

\* The frame is normalised and, when that gives a series, kept under the name.
Kept(acc, role, pdl_name, df) ==
    IF df.n > 0
    THEN IF df.numeric
         THEN [acc EXCEPT !.ts = [x \in DOMAIN acc.ts \cup {pdl_name} |->
                                     IF x = pdl_name THEN df ELSE acc.ts[x]],
                          !.with_data = @ + 1]
         ELSE Errored(acc, Message(role, pdl_name, "could not normalize curve"))
    ELSE Errored(acc, Message(role, pdl_name, "no valid curve data"))

\* The body of for point in points, for the point named pdl_name. The test
\* "courbe or curve_data" of a DataFrame raises ValueError; the dict of a
\* failed process_curve has impute_report None, and None.get raises
\* AttributeError.
Visited(acc, role, pdl_name, courbe) ==
    CASE acc.raised -> acc
      [] courbe.kind = "none" -> Errored(acc, Message(role, pdl_name, "no curve data"))
      [] courbe.kind = "frame" -> [acc EXCEPT !.raised = TRUE]
      [] courbe.kind = "dict" /\ courbe.impute_report = None -> [acc EXCEPT !.raised = TRUE]
      [] courbe.kind = "dict" /\ IsRejected(courbe.impute_report) ->
            Errored(acc, Message(role, pdl_name, "REJECTED (no imputable values after +-4 weeks)"))
      [] OTHER -> Kept(acc, role, pdl_name, courbe.df)

\* for point in points, over the first k points
RECURSIVE Collected(_, _, _)
Collected(points, role, k) ==
    IF k = 0 THEN [ts |-> <<>>, with_data |-> 0, errors |-> <<>>, raised |-> FALSE]
    ELSE Visited(Collected(points, role, k - 1), role,
                 PdlName(points[k], role, Collected(points, role, k - 1).ts),
                 points[k].courbe)

SetMin(S) == CHOOSE x \in S : \A y \in S : x <= y

SetMax(S) == CHOOSE x \in S : \A y \in S : y <= x

\* pd.DataFrame(ts_dict) resampled to the hour: one row per hour from the
\* first to the last hour of the series, NaN where a series has no value.
Consolidated(ts, first, last) ==
    [index |-> Hours(first, last - first + 1),
     rows |-> [k \in 1..(last - first + 1) |->
                 [name \in DOMAIN ts |->
                     IF ts[name].first <= first + k - 1
                         /\ first + k - 1 < ts[name].first + ts[name].n
                     THEN ts[name].value ELSE NaN]]]

_build_consolidated_dataframe(ts) ==
    IF DOMAIN ts = {} THEN None
    ELSE Consolidated(ts, SetMin({ts[name].first : name \in DOMAIN ts}),
                      SetMax({ts[name].first + ts[name].n - 1 : name \in DOMAIN ts}))

NoData(ts, role) ==
    IF DOMAIN ts = {} THEN <<"No " \o role \o " data to aggregate">> ELSE <<>>

Summary(consumers, producers) ==
    [consumers_count |-> Len(points_consumers),
     producers_count |-> Len(points_producers),
     consumers_with_data |-> consumers.with_data,
     producers_with_data |-> producers.with_data,
     time_range |-> <<>>,
     alignment_status |-> "OK",
     errors |-> consumers.errors \o producers.errors
                \o NoData(consumers.ts, "consumer") \o NoData(producers.ts, "producer")]

InitBuild ==
    /\ mode = "dynamique_defaut"
    /\ consumer_percentages = <<>>
    /\ consumer_priorities = <<>>
    /\ consumer_group_keys = <<>>
    /\ df_prod = <<>>
    /\ df_conso = <<>>
    /\ done = {}
    /\ surplus_prod = ZeroProd
    /\ auto_partage_total = ZeroConso
    /\ fourn_compl_total = ZeroConso
    /\ auto_partage_df = <<>>
    /\ auto_prod_df = <<>>
    /\ t = 0
    /\ it = NoIteration
    /\ \/ /\ points_consumers \in PointLists(10, BuildActors)
          /\ points_producers \in PointLists(20, BuildActors - 1)
       \/ /\ points_consumers \in PointLists(10, BuildActors - 1)
          /\ points_producers \in PointLists(20, BuildActors)
    /\ consumers_df = None
    /\ producers_df = None
    /\ summary = None
    /\ pandas = None
    /\ curve = None
    /\ target_timestep = Unset
    /\ max_weeks = 0
    /\ resampled = None
    /\ df_imputed = None
    /\ impute_report = None
    /\ validation = None
    /\ stage = "build"
    /\ NoRead

Consumers_ts == Collected(points_consumers, "Consumer", Len(points_consumers))

Producers_ts == Collected(points_producers, "Producer", Len(points_producers))

CollectedBoth(consumers, producers) ==
    /\ consumers_df' = _build_consolidated_dataframe(consumers.ts)
    /\ producers_df' = _build_consolidated_dataframe(producers.ts)
    /\ summary' = Summary(consumers, producers)
    /\ stage' = "collected"
    /\ UNCHANGED <<allocVars, readVars, points_consumers, points_producers, pandas, curve,
                   target_timestep, max_weeks, resampled, df_imputed, impute_report,
                   validation>>

\* The two loops over the points and the consolidation of what they kept.
Collect ==
    /\ stage = "build"
    /\ ~Consumers_ts.raised
    /\ ~Producers_ts.raised
    /\ CollectedBoth(Consumers_ts, Producers_ts)

\* A point whose curve is a DataFrame: build_dataframes raises.
CollectRaises ==
    /\ stage = "build"
    /\ Consumers_ts.raised \/ Producers_ts.raised
    /\ stage' = "raised"
    /\ UNCHANGED <<allocVars, readVars, aggVars, pandas, curve, target_timestep, max_weeks,
                   resampled, df_imputed, impute_report, validation>>

\* Only one of the two tables exists: its time range is the summary's.
OneSide(df) ==
    /\ summary' = [summary EXCEPT !.time_range = <<IndexMin(df), IndexMax(df)>>]
    /\ UNCHANGED <<allocVars, points_consumers, points_producers, consumers_df,
                   producers_df, curveVars, readVars>>

BuildOneSide ==
    /\ stage = "collected"
    /\ summary.time_range = <<>>
    /\ \/ consumers_df # None /\ producers_df = None /\ OneSide(consumers_df)
       \/ consumers_df = None /\ producers_df # None /\ OneSide(producers_df)

BuildNoOverlap ==
    /\ stage = "collected"
    /\ consumers_df # None
    /\ producers_df # None
    /\ AlignNoOverlap

BuildTruncate ==
    /\ stage = "collected"
    /\ consumers_df # None
    /\ producers_df # None
    /\ AlignTruncate

NextBuild == Collect \/ CollectRaises \/ BuildOneSide \/ BuildNoOverlap \/ BuildTruncate

SpecBuild == InitBuild /\ [][NextBuild]_vars

\* The actors of a list whose imputation report says rejected.
RejectedActors(points) ==
    {i \in 1..Len(points) :
        /\ points[i].courbe.kind = "dict"
        /\ "rejected" \in DOMAIN points[i].courbe.impute_report
        /\ points[i].courbe.impute_report.rejected}

\* The actors of a list that give a column.
IncludedActors(points) ==
    {i \in 1..Len(points) :
        /\ points[i].courbe.kind = "dict"
        /\ i \notin RejectedActors(points)
        /\ points[i].courbe.df.n > 0
        /\ points[i].courbe.df.numeric}

\* The values the columns of a table carry.
Carried(df) ==
    IF df = None THEN {}
    ELSE {df.rows[k][name] : k \in 1..Len(df.rows), name \in DOMAIN df.rows[1]} \ {NaN}

Columns(df) == IF df = None THEN {} ELSE DOMAIN df.rows[1]

\* The names a point of the role may go by.
NamesOf(role) == {"A"} \cup {role \o "_" \o ToString(k) : k \in 0..BuildActors}

RejectionOf(role, pdl_name) == Message(role, pdl_name, "REJECTED (no imputable values after +-4 weeks)")

Rejections(role) ==
    {j \in 1..Len(summary.errors) :
        summary.errors[j] \in {RejectionOf(role, name) : name \in NamesOf(role)}}

Others(points) ==
    SelectSeq(points, LAMBDA point :
        ~(/\ point.courbe.kind = "dict"
          /\ "rejected" \in DOMAIN point.courbe.impute_report
          /\ point.courbe.impute_report.rejected))

\* What the claim says of one role: its list of points, its table, its
\* count of actors with data.
RejectionPropagates(points, role, df, with_data) ==
    /\ \A i \in RejectedActors(points) :
          /\ points[i].courbe.df.value \notin Carried(df)
          /\ \E j \in Rejections(role) :
                points[i].nom # "" => summary.errors[j] = RejectionOf(role, points[i].nom)
    /\ Cardinality(Rejections(role)) = Cardinality(RejectedActors(points))
    /\ with_data = Cardinality(IncludedActors(points))
    /\ with_data = Collected(Others(points), role, Len(Others(points))).with_data
    /\ Columns(df) = DOMAIN Collected(Others(points), role, Len(Others(points))).ts
    /\ Carried(df) \subseteq
          {points[i].courbe.df.value : i \in IncludedActors(points)}
    /\ \A j \in 1..Len(Collected(Others(points), role, Len(Others(points))).errors) :
          \E i \in 1..Len(summary.errors) :
              summary.errors[i] =
                  Collected(Others(points), role, Len(Others(points))).errors[j]

\* C20: once build_dataframes has gone through the points, an actor of
\* either role whose imputation report says rejected gives no column of the
\* consolidated table, is not counted among the actors with data and has a
\* REJECTED message with its name in the errors of the summary; the columns,
\* the count and the messages of the other actors are what they are without
\* it.
C20_RejectionPropagates ==
    stage = "collected" =>
        /\ RejectionPropagates(points_consumers, "Consumer", consumers_df,
                               summary.consumers_with_data)
        /\ RejectionPropagates(points_producers, "Producer", producers_df,
                               summary.producers_with_data)

\* A rejected consumer named A stands before a consumer that has a column,
\* and build_dataframes has returned both tables.
C20_Witness ==
    /\ stage = "collected"
    /\ summary.alignment_status # "OK"
    /\ Len(points_consumers) = 2
    /\ 1 \in RejectedActors(points_consumers)
    /\ points_consumers[1].nom = "A"
    /\ 2 \in IncludedActors(points_consumers)
    /\ summary.consumers_with_data = 1
    /\ Carried(consumers_df) = {12}

\* ------------------------------------------------------------ process_curve
\* A file has one row per hour listed, timestamps in minutes; the cell of a
\* row is a value or is not a number.
FileStamps == {60 * h : h \in 0..(FileHours - 1)} \cup {60 * (Week + h) : h \in 0..(FileHours - 1)}

Files ==
    {Frame(SortedSeq({ts \in FileStamps : status[ts] # "absent"}),
           LAMBDA ts : IF status[ts] = "nan" THEN NaN ELSE 24) :
        status \in {f \in [FileStamps -> {"absent", "nan", "present"}] :
                        \E ts \in FileStamps : f[ts] = "present"}}

\* The positions of index, in order, whose value is a number.
RECURSIVE Notna(_, _)
Notna(value, n) ==
    IF n = 0 THEN <<>>
    ELSE IF value[n] # NaN THEN Append(Notna(value, n - 1), n)
    ELSE Notna(value, n - 1)

Taken(df, rows) ==
    [index |-> [i \in 1..Len(rows) |-> df.index[rows[i]]],
     value |-> [i \in 1..Len(rows) |-> df.value[rows[i]]]]

\* df = df[df["value"].notna()]; df.set_index("datetime").sort_index()
read_curve(file) == Taken(file, Notna(file.value, Len(file.value)))

\* The frame resampled to the hour, its timestamps counted in hours as the
\* imputer shifts them.
Hourly(df) == [index |-> [i \in 1..Len(df.index) |-> df.index[i] \div 60], value |-> df.value]

InitPipeline ==
    /\ mode = "dynamique_defaut"
    /\ consumer_percentages = <<>>
    /\ consumer_priorities = <<>>
    /\ consumer_group_keys = <<>>
    /\ df_prod = <<>>
    /\ df_conso = <<>>
    /\ done = {}
    /\ surplus_prod = ZeroProd
    /\ auto_partage_total = ZeroConso
    /\ fourn_compl_total = ZeroConso
    /\ auto_partage_df = <<>>
    /\ auto_prod_df = <<>>
    /\ t = 0
    /\ it = NoIteration
    /\ points_consumers = <<>>
    /\ points_producers = <<>>
    /\ consumers_df = None
    /\ producers_df = None
    /\ summary = None
    /\ pandas \in {[aliases |-> a, copy_on_write |-> b] : a \in {"new", "old"}, b \in BOOLEAN}
    /\ curve \in Files
    /\ target_timestep = "PT60M"
    /\ max_weeks \in 1..MaxMaxWeeks
    /\ resampled = None
    /\ df_imputed = None
    /\ impute_report = None
    /\ validation = None
    /\ stage = "process"
    /\ NoRead

\* parsed_df, metadata = read_curve(file_or_df); resample_curve(parsed_df, target_timestep)
ProcessResample ==
    /\ stage = "process"
    /\ ResampleReturns(resample_curve(read_curve(curve), target_timestep, pandas.aliases))

\* impute_by_week_shift(resampled_df, value_col="value", max_weeks=max_weeks)
ProcessImpute ==
    /\ stage = "resampled"
    /\ ImputeReturns(impute_by_week_shift(Hourly(resampled.df), max_weeks,
                                          pandas.copy_on_write))

\* validate_curve(df_imputed); result["success"] = True
ProcessValidate ==
    /\ stage = "imputed"
    /\ ValidateReturns(validate_curve(df_imputed))

\* The point that is stored with the result of process_curve as its curve.
Point(df, report) ==
    [nom |-> "A",
     courbe |-> [kind |-> "dict",
                 df |-> Series(df.index[1], Len(df.index), 1, TRUE),
                 impute_report |-> report]]

\* build_dataframes on the point, the only producer, without consumers
Aggregate ==
    /\ stage = "validated"
    /\ points_producers' = <<Point(df_imputed, impute_report)>>
    /\ producers_df' = _build_consolidated_dataframe(
            Collected(<<Point(df_imputed, impute_report)>>, "Producer", 1).ts)
    /\ summary' =
         [consumers_count |-> 0,
          producers_count |-> 1,
          consumers_with_data |-> 0,
          producers_with_data |->
              Collected(<<Point(df_imputed, impute_report)>>, "Producer", 1).with_data,
          time_range |-> <<>>,
          alignment_status |-> "OK",
          errors |-> Collected(<<Point(df_imputed, impute_report)>>, "Producer", 1).errors
                     \o <<"No consumer data to aggregate">>
                     \o NoData(Collected(<<Point(df_imputed, impute_report)>>, "Producer", 1).ts,
                               "producer")]
    /\ stage' = "collected"
    /\ UNCHANGED <<allocVars, readVars, points_consumers, consumers_df, pandas, curve,
                   target_timestep, max_weeks, resampled, df_imputed, impute_report,
                   validation>>

NextPipeline == ProcessResample \/ ProcessImpute \/ ProcessValidate \/ Aggregate \/ BuildOneSide

SpecPipeline == InitPipeline /\ [][NextPipeline]_vars

\* The value the file has at the minute ts, NaN where it has no row.
InFile(ts) == ValueAt(curve.index, curve.value, ts)

\* The hours of the target grid: from the file's first row with a value to
\* its last.
GridHours ==
    {h \in 0..(Week + FileHours - 1) :
        /\ \E ts \in FileStamps : ts <= 60 * h /\ InFile(ts) # NaN
        /\ \E ts \in FileStamps : ts >= 60 * h /\ InFile(ts) # NaN}

\* The hours of the grid without data for which no week within max_weeks,
\* before or after, has data.
Unfillable ==
    {h \in GridHours :
        /\ InFile(60 * h) = NaN
        /\ \A k \in 1..max_weeks :
              InFile(60 * (h - k * Week)) = NaN /\ InFile(60 * (h + k * Week)) = NaN}

\* C16: when the file given to process_curve leaves an hour of the target
\* grid without data and no week within max_weeks has data for that hour,
\* the report that comes back has missing_after > 0 and rejected = true, and
\* build_dataframes gives the actor no column.
C16_ResidualRejected ==
    (stage \in {"imputed", "validated", "collected"} /\ Unfillable # {}) =>
        /\ impute_report.missing_after > 0
        /\ "rejected" \in DOMAIN impute_report
        /\ impute_report.rejected
        /\ stage = "collected" => "A" \notin Columns(producers_df)

\* What the pipeline does instead: the frame the imputer is given has no
\* NaN, so the report counts nothing missing, has no key rejected, and the
\* actor has its column.
NothingLeftToImpute ==
    /\ stage \in {"resampled", "imputed", "validated", "collected"} =>
          Missing(resampled.df.value) = {}
    /\ stage \in {"imputed", "validated", "collected"} =>
          impute_report.missing_after = 0 /\ "rejected" \notin DOMAIN impute_report
    /\ stage = "collected" => Columns(producers_df) = {"A"}

\* ------------------------------------------------------------ properties of build_dataframes
\* The row a table has at the hour h.
RowAt(df, h) == df.rows[CHOOSE i \in 1..Len(df.index) : df.index[i] = h]

\* The table new is the table old between the hours lo and hi: one row per
\* hour of the interval, in order, each the row old has at that hour.
CutTo(new, old, lo, hi) ==
    /\ Len(new.index) = hi - lo + 1
    /\ Len(new.rows) = hi - lo + 1
    /\ \A i \in 1..(hi - lo + 1) :
          new.index[i] = lo + i - 1 /\ new.rows[i] = RowAt(old, lo + i - 1)

\* The later of the two first hours and the earlier of the two last hours.
LaterStart == IF consumers_df.index[1] >= producers_df.index[1]
              THEN consumers_df.index[1] ELSE producers_df.index[1]

EarlierEnd == IF consumers_df.index[Len(consumers_df.index)]
                    <= producers_df.index[Len(producers_df.index)]
              THEN consumers_df.index[Len(consumers_df.index)]
              ELSE producers_df.index[Len(producers_df.index)]

\* C21: when the time ranges of the two consolidated tables meet, the step
\* of build_dataframes that aligns them cuts both tables to the interval from
\* the later first hour to the earlier last hour, the two tables come back
\* with the same index row for row, and the summary's time_range is that
\* interval.
C21_Truncation ==
    [][(summary.alignment_status = "OK" /\ LaterStart <= EarlierEnd) =>
          /\ summary'.alignment_status = "Aligned"
          /\ summary'.time_range[1] = LaterStart
          /\ summary'.time_range[2] = EarlierEnd
          /\ CutTo(consumers_df', consumers_df, LaterStart, EarlierEnd)
          /\ CutTo(producers_df', producers_df, LaterStart, EarlierEnd)
          /\ Len(consumers_df'.index) = Len(producers_df'.index)
          /\ \A i \in 1..Len(consumers_df'.index) :
                consumers_df'.index[i] = producers_df'.index[i]]_vars

\* Consumers over the hours 1..2 and producers over the hours 2..3 have both
\* come back over the hour 2 alone.
C21_Witness ==
    /\ summary.alignment_status = "Aligned"
    /\ summary.time_range = <<2, 2>>
    /\ consumers_df.index = <<2>>
    /\ producers_df.index = <<2>>
    /\ Len(consumers_df.rows) = 1
    /\ Len(producers_df.rows) = 1

\* The two sequences have the same elements in the same places.
SameSeq(a, b) == Len(a) = Len(b) /\ \A i \in 1..Len(a) : a[i] = b[i]

\* C22: when the time ranges of the two consolidated tables do not meet,
\* build_dataframes returns all the same: the alignment status is the no
\* temporal overlap error, one message is appended to the errors of the
\* summary, time_range stays unset, and both tables come back whole.
C22_NoOverlapReturned ==
    [][(summary.alignment_status = "OK" /\ LaterStart > EarlierEnd) =>
          /\ summary'.alignment_status = "ERROR: no temporal overlap"
          /\ Len(summary'.errors) = Len(summary.errors) + 1
          /\ \A i \in 1..Len(summary.errors) : summary'.errors[i] = summary.errors[i]
          /\ summary'.errors[Len(summary'.errors)]
                = "Consumer and producer time ranges do not overlap"
          /\ summary'.time_range = <<>>
          /\ SameSeq(consumers_df'.index, consumers_df.index)
          /\ SameSeq(consumers_df'.rows, consumers_df.rows)
          /\ SameSeq(producers_df'.index, producers_df.index)
          /\ SameSeq(producers_df'.rows, producers_df.rows)]_vars

\* Consumers over the hours 1..2 and producers over the hour 3 have come
\* back whole with the error status.
C22_Witness ==
    /\ summary.alignment_status = "ERROR: no temporal overlap"
    /\ summary.time_range = <<>>
    /\ Len(summary.errors) = 1
    /\ consumers_df.index = <<1, 2>>
    /\ Len(consumers_df.rows) = 2
    /\ producers_df.index = <<3>>
    /\ Len(producers_df.rows) = 1

\* The point gives a column: its curve is a bundle that is not rejected and
\* whose table has rows and a numeric column.
GivesColumn(point) ==
    /\ point.courbe.kind = "dict"
    /\ point.courbe.df # None
    /\ ~("rejected" \in DOMAIN point.courbe.impute_report
            /\ point.courbe.impute_report.rejected)
    /\ point.courbe.df.n > 0
    /\ point.courbe.df.numeric

\* The messages of the summary that are about one actor of the role.
ActorMessages(role) ==
    {j \in 1..Len(summary.errors) :
        \E name \in NamesOf(role) :
            summary.errors[j] \in
                {Message(role, name, what) :
                    what \in {"no curve data",
                              "REJECTED (no imputable values after +-4 weeks)",
                              "could not normalize curve",
                              "no valid curve data"}}}

\* What the claim says of one role once build_dataframes has gone through
\* its points: one message per actor that gives no column, and the columns
\* and the count of the list without those actors.
Degraded(points, role, df, with_data) ==
    /\ Cardinality(ActorMessages(role))
          = Cardinality({i \in 1..Len(points) : ~GivesColumn(points[i])})
    /\ with_data = Collected(SelectSeq(points, GivesColumn), role,
                             Len(SelectSeq(points, GivesColumn))).with_data
    /\ Columns(df) = DOMAIN Collected(SelectSeq(points, GivesColumn), role,
                                      Len(SelectSeq(points, GivesColumn))).ts

\* C23: for any list of actors, among them actors with no curve, with the
\* bundle of a failed process_curve, or with an empty or unusable table,
\* build_dataframes does not raise, and once it has gone through the points
\* each such actor has one message in the errors while the columns and
\* counts are those of the other actors alone.
C23_GracefulDegradation ==
    /\ stage # "raised"
    /\ stage = "collected" =>
          /\ Degraded(points_consumers, "Consumer", consumers_df,
                      summary.consumers_with_data)
          /\ Degraded(points_producers, "Producer", producers_df,
                      summary.producers_with_data)

\* What holds instead: build_dataframes raises exactly when some point
\* carries a table that is not in a bundle or the bundle of a failed
\* process_curve, and degrades as said for every other list.
RaisesOn(points) ==
    \E i \in 1..Len(points) :
        \/ points[i].courbe.kind = "frame"
        \/ points[i].courbe.kind = "dict" /\ points[i].courbe.impute_report = None

DegradesUnlessRaised ==
    /\ stage = "raised" <=>
          (stage # "build" /\ (RaisesOn(points_consumers) \/ RaisesOn(points_producers)))
    /\ stage = "collected" =>
          /\ Degraded(points_consumers, "Consumer", consumers_df,
                      summary.consumers_with_data)
          /\ Degraded(points_producers, "Producer", producers_df,
                      summary.producers_with_data)

\* The point carries a table with rows that is not in a bundle.
DirectTable(point) == point.courbe.kind = "frame" /\ point.courbe.df.n > 0

\* The list with every table that is not in a bundle put in a bundle whose
\* report is not rejected.
Bundled(points) ==
    [i \in 1..Len(points) |->
        IF points[i].courbe.kind = "frame"
        THEN [nom |-> points[i].nom,
              courbe |-> [kind |-> "dict", df |-> points[i].courbe.df,
                          impute_report |-> [missing_after |-> 0, rejected |-> FALSE]]]
        ELSE points[i]]

\* The lists the claim is about: some actor supplies a table directly and no
\* actor carries the bundle of a failed process_curve.
SuppliesDirectTable ==
    /\ \E i \in 1..Len(points_consumers) : DirectTable(points_consumers[i])
    /\ \A i \in 1..Len(points_consumers) :
          points_consumers[i].courbe.kind = "dict" =>
              points_consumers[i].courbe.impute_report # None
    /\ \A i \in 1..Len(points_producers) :
          /\ points_producers[i].courbe.kind # "frame"
          /\ points_producers[i].courbe.kind = "dict" =>
                points_producers[i].courbe.impute_report # None

\* C24: a consumer that supplies a table with rows directly, not in a
\* bundle, is taken by build_dataframes as a column of the consumers' table,
\* as if the table had come in a bundle whose report is not rejected.
C24_DirectTableIncluded ==
    (stage # "build" /\ SuppliesDirectTable) =>
        /\ stage = "collected"
        /\ Columns(consumers_df)
              = DOMAIN Collected(Bundled(points_consumers), "Consumer",
                                 Len(points_consumers)).ts
        /\ summary.consumers_with_data
              = Collected(Bundled(points_consumers), "Consumer",
                          Len(points_consumers)).with_data

\* What the claim says of one role: every actor provided is either counted
\* among the actors with data or has one message about it, never both.
Accounted(points, role, count, with_data) ==
    /\ count = Len(points)
    /\ with_data = Cardinality({i \in 1..Len(points) : GivesColumn(points[i])})
    /\ Cardinality(ActorMessages(role))
          = Cardinality({i \in 1..Len(points) : ~GivesColumn(points[i])})
    /\ Len(points) = with_data + Cardinality(ActorMessages(role))

\* C28: in the summary build_dataframes returns, for each role the number of
\* actors provided is the number counted with data plus the number of
\* messages about one actor of the role: an actor that gives a column adds
\* to the counter and adds no message, an actor that is skipped adds one
\* message.
C28_Accounting ==
    stage = "collected" =>
        /\ Accounted(points_consumers, "Consumer", summary.consumers_count,
                     summary.consumers_with_data)
        /\ Accounted(points_producers, "Producer", summary.producers_count,
                     summary.producers_with_data)

\* Of two consumers one has been counted with data and the other has its
\* message; the only producer has been skipped.
C28_Witness ==
    /\ stage = "collected"
    /\ Len(points_consumers) = 2
    /\ summary.consumers_with_data = 1
    /\ Cardinality(ActorMessages("Consumer")) = 1
    /\ Len(points_producers) = 1
    /\ summary.producers_with_data = 0
    /\ Cardinality(ActorMessages("Producer")) = 1

\* ------------------------------------------------------------ read_curve, from the header on
\* A table has two or three columns. The header of the first is a spelling
\* of datetime, horodate or date, or the first timestamp of a file without
\* header; the header of the second is a spelling of w or valeur, or the
\* first number of a file without header; the third, when there is one, is
\* "note". A cell is told by what pd.to_datetime and pd.to_numeric make of
\* it: dt is a timestamp in minutes or NaN, num a number or NaN. Values are
\* multiples of 1000, which the division by 1000.0 turns into whole numbers.
DateHeaders ==
    {"datetime", "Datetime", "DATETIME", "horodate", "Horodate", "HORODATE",
     "date", "Date", "DATE", "2024-01-01 00:00"}

ValueHeaders == {"w", "W", "valeur", "Valeur", "VALEUR", "12.5"}

Cell(dt, num) == [dt |-> dt, num |-> num]

RawRow(i, status, ncols) ==
    [k \in 1..ncols |->
        CASE k = 1 -> Cell(IF status = "nat" THEN NaN ELSE 60 * (i - 1), NaN)
          [] k = 2 -> Cell(NaN, IF status = "nan" THEN NaN ELSE 1000 * i)
          [] OTHER -> Cell(NaN, NaN)]

RawTables ==
    UNION {{[columns |-> IF ncols = 2 THEN <<h1, h2>> ELSE <<h1, h2, "note">>,
             rows |-> [i \in 1..n |-> RawRow(i, status[i], ncols)]] :
                h1 \in DateHeaders, h2 \in ValueHeaders, ncols \in {2, 3},
                status \in [1..n -> {"ok", "nat", "nan"}]} :
           n \in 1..ReadRows}

\* c.lower()
lower(c) ==
    CASE c \in {"datetime", "Datetime", "DATETIME"} -> "datetime"
      [] c \in {"horodate", "Horodate", "HORODATE"} -> "horodate"
      [] c \in {"date", "Date", "DATE"} -> "date"
      [] c \in {"w", "W"} -> "w"
      [] c \in {"valeur", "Valeur", "VALEUR"} -> "valeur"
      [] OTHER -> c

cols_lower(cols) == [k \in 1..Len(cols) |-> lower(cols[k])]

\* x in cols_lower
In(x, seq) == \E k \in 1..Len(seq) : seq[k] = x

\* cols_lower.index(x)
IndexOf(x, seq) == CHOOSE k \in 1..Len(seq) : seq[k] = x /\ \A j \in 1..(k - 1) : seq[j] # x

\* any(x in col for x in ["date", "time", "horodate", "datetime"]), for the
\* lower-case headers of the model
DateLike(col) == col \in {"datetime", "horodate", "date"}

\* any(x in col for x in ["valeur", "value", "val", "power", "w", "kw"])
ValueLike(col) == col \in {"valeur", "w"}

\* The first column of cols_lower with a date-like name, and the first with a
\* value-like name; 0 when there is none.
FirstDateLike(lows) ==
    IF \E k \in 1..Len(lows) : DateLike(lows[k])
    THEN CHOOSE k \in 1..Len(lows) : DateLike(lows[k]) /\ \A j \in 1..(k - 1) : ~DateLike(lows[j])
    ELSE 0

FirstValueLike(lows) ==
    IF \E k \in 1..Len(lows) : ValueLike(lows[k])
    THEN CHOOSE k \in 1..Len(lows) : ValueLike(lows[k]) /\ \A j \in 1..(k - 1) : ~ValueLike(lows[j])
    ELSE 0

Detection(dt_col, val_col, fmt) == [dt_col |-> dt_col, val_col |-> val_col, fmt |-> fmt]

\* pd.to_datetime(df.iloc[:5, 0], errors="coerce").notna().sum() >= 3
LooksLikeDatetime(rows) ==
    Cardinality({i \in 1..Min(5, Len(rows)) : rows[i][1].dt # NaN}) >= 3

\* The fallback: the first column with a date-like name, else the first
\* column; the first column with a value-like name, else the second.
Fallback(cols, lows) ==
    Detection(IF FirstDateLike(lows) # 0 THEN cols[FirstDateLike(lows)]
              ELSE IF Len(cols) >= 1 THEN cols[1] ELSE Unset,
              IF FirstValueLike(lows) # 0 THEN cols[FirstValueLike(lows)]
              ELSE IF Len(cols) >= 2 THEN cols[2] ELSE Unset,
              "Unknown")

\* _detect_format(df), on the columns and their lower-case spellings
Detect(cols, lows, rows) ==
    CASE Len(cols) = 2 /\ In("datetime", lows) /\ In("w", lows) ->
            Detection(cols[IndexOf("datetime", lows)], cols[IndexOf("w", lows)], "ALEX")
      [] ~(Len(cols) = 2 /\ In("datetime", lows) /\ In("w", lows))
            /\ In("horodate", lows) /\ In("valeur", lows) ->
            Detection("Horodate", "Valeur", "SGE")
      [] ~(Len(cols) = 2 /\ In("datetime", lows) /\ In("w", lows))
            /\ ~(In("horodate", lows) /\ In("valeur", lows))
            /\ In("date", lows) /\ In("valeur", lows) ->
            Detection("date", "valeur", "EMS")
      [] OTHER ->
            IF Len(cols) >= 2 /\ LooksLikeDatetime(rows)
            THEN Detection(cols[1], cols[2], "Archelios")
            ELSE Fallback(cols, lows)

_detect_format(df) == Detect(df.columns, cols_lower(df.columns), df.rows)

\* _infer_unit(fmt, val_col); of the headers of the model only w holds "w",
\* and none holds "kw", "kwh" or "wh".
_infer_unit(fmt, val_col) ==
    CASE fmt = "ALEX" -> "W"
      [] fmt = "SGE" -> "W"
      [] fmt \notin {"ALEX", "SGE"} /\ lower(val_col) = "w" -> "W"
      [] OTHER -> "Unknown"

NormalizedUnit(unit) ==
    CASE unit = "W" -> "kW"
      [] unit = "Wh" -> "kWh"
      [] OTHER -> unit

\* df["value"] / 1000.0 for the units W and Wh
NormalizedValue(unit, v) == IF unit \in {"W", "Wh"} THEN v \div 1000 ELSE v

\* The rows of raw_df[[dt_col, val_col]] whose datetime and value are both
\* read, in order.
RECURSIVE Readable(_, _, _, _)
Readable(rows, dt, val, n) ==
    IF n = 0 THEN <<>>
    ELSE IF rows[n][dt].dt # NaN /\ rows[n][val].num # NaN
    THEN Append(Readable(rows, dt, val, n - 1), n)
    ELSE Readable(rows, dt, val, n - 1)

\* The index is sorted already: the timestamps of the model grow with the rows.
Curve(rows, dt, val, kept, unit) ==
    [index |-> [i \in 1..Len(kept) |-> rows[kept[i]][dt].dt],
     value |-> [i \in 1..Len(kept) |-> NormalizedValue(unit, rows[kept[i]][val].num)]]

\* deltas.value_counts().idxmax(), where every delta of the model is the same
_infer_frequency(index) ==
    IF Len(index) < 2 THEN "Unknown"
    ELSE CASE index[2] - index[1] <= 1 -> "PT1M"
           [] index[2] - index[1] \in 2..5 -> "PT5M"
           [] index[2] - index[1] \in 6..15 -> "PT15M"
           [] index[2] - index[1] \in 16..30 -> "PT30M"
           [] index[2] - index[1] \in 31..60 -> "PT60M"
           [] OTHER -> "PT" \o ToString(index[2] - index[1]) \o "M"

Parsed(df, fmt, unit, curve_read) ==
    [raised |-> "",
     df |-> curve_read,
     metadata |-> [source_file |-> "dataframe",
                   detected_format |-> fmt,
                   frequency |-> _infer_frequency(curve_read.index),
                   unit |-> NormalizedUnit(unit),
                   total_rows |-> Len(df.rows)]]

Extracted(df, dt, val, fmt, unit) ==
    Parsed(df, fmt, unit,
           Curve(df.rows, dt, val, Readable(df.rows, dt, val, Len(df.rows)), unit))

\* read_curve from the detection on: no column found raises ValueError, a
\* column that is not in the table raises KeyError.
Read(df, d) ==
    IF d.dt_col = Unset \/ d.val_col = Unset THEN [raised |-> "ValueError"]
    ELSE IF ~In(d.dt_col, df.columns) \/ ~In(d.val_col, df.columns)
    THEN [raised |-> "KeyError"]
    ELSE Extracted(df, IndexOf(d.dt_col, df.columns), IndexOf(d.val_col, df.columns),
                   d.fmt, _infer_unit(d.fmt, d.val_col))

\* read_curve(file_or_df) on a DataFrame
read_table(df) == Read(df, _detect_format(df))

InitRead ==
    /\ mode = "dynamique_defaut"
    /\ consumer_percentages = <<>>
    /\ consumer_priorities = <<>>
    /\ consumer_group_keys = <<>>
    /\ df_prod = <<>>
    /\ df_conso = <<>>
    /\ done = {}
    /\ surplus_prod = ZeroProd
    /\ auto_partage_total = ZeroConso
    /\ fourn_compl_total = ZeroConso
    /\ auto_partage_df = <<>>
    /\ auto_prod_df = <<>>
    /\ t = 0
    /\ it = NoIteration
    /\ NoAggregation
    /\ pandas = None
    /\ curve = None
    /\ target_timestep = Unset
    /\ max_weeks = 0
    /\ resampled = None
    /\ df_imputed = None
    /\ impute_report = None
    /\ validation = None
    /\ stage = "read"
    /\ raw_df \in RawTables
    /\ metadata = None

\* The call that returns the curve and its metadata.
ReadReturns ==
    /\ stage = "read"
    /\ read_table(raw_df).raised = ""
    /\ curve' = read_table(raw_df).df
    /\ metadata' = read_table(raw_df).metadata
    /\ stage' = "parsed"
    /\ UNCHANGED <<allocVars, aggVars, raw_df, pandas, target_timestep, max_weeks,
                   resampled, df_imputed, impute_report, validation>>

\* The call that raises.
ReadRaises ==
    /\ stage = "read"
    /\ read_table(raw_df).raised # ""
    /\ stage' = "raised"
    /\ UNCHANGED <<allocVars, aggVars, readVars, pandas, curve, target_timestep,
                   max_weeks, resampled, df_imputed, impute_report, validation>>

NextRead == ReadReturns \/ ReadRaises

SpecRead == InitRead /\ [][NextRead]_vars

\* The format whose header names the first two columns of the table spell,
\* in whatever letter case: the generic format has these two columns only.
SpelledFormat ==
    CASE Len(raw_df.columns) = 2 /\ lower(raw_df.columns[1]) = "datetime"
            /\ lower(raw_df.columns[2]) = "w" -> "ALEX"
      [] lower(raw_df.columns[1]) = "horodate" /\ lower(raw_df.columns[2]) = "valeur" -> "SGE"
      [] lower(raw_df.columns[1]) = "date" /\ lower(raw_df.columns[2]) = "valeur" -> "EMS"
      [] OTHER -> Unset

\* The rows of the table whose first cell is a timestamp and whose second
\* cell is a number.
ReadableRows ==
    {i \in 1..Len(raw_df.rows) : raw_df.rows[i][1].dt # NaN /\ raw_df.rows[i][2].num # NaN}

\* The curve is made of the first two columns: one sample per readable row,
\* at the row's timestamp.
FromMatchingColumns ==
    /\ Len(curve.index) = Cardinality(ReadableRows)
    /\ \A i \in ReadableRows :
          \E k \in 1..Len(curve.index) : curve.index[k] = raw_df.rows[i][1].dt

\* C25: a table whose header names are those of a format, in any letter
\* case (datetime and w alone; horodate and valeur; date and valeur), is
\* detected with the tag of that format and read_curve returns the curve of
\* the matching columns.
C25_CaseInsensitiveRead ==
    (stage # "read" /\ SpelledFormat # Unset) =>
        /\ stage = "parsed"
        /\ metadata.detected_format = SpelledFormat
        /\ FromMatchingColumns

\* What holds instead: the tag detected follows the names in any letter
\* case, but the read succeeds for the meter exports only under the exact
\* spellings Horodate / Valeur and date / valeur.
ExactSpelling ==
    CASE SpelledFormat = "SGE" -> raw_df.columns[1] = "Horodate" /\ raw_df.columns[2] = "Valeur"
      [] SpelledFormat = "EMS" -> raw_df.columns[1] = "date" /\ raw_df.columns[2] = "valeur"
      [] OTHER -> TRUE

ReadUnderExactSpelling ==
    /\ SpelledFormat # Unset => _detect_format(raw_df).fmt = SpelledFormat
    /\ stage = "raised" <=> (stage # "read" /\ ~ExactSpelling)
    /\ stage = "parsed" => FromMatchingColumns
    /\ (stage = "parsed" /\ SpelledFormat # Unset) =>
          metadata.detected_format = SpelledFormat

\* C26: for a table read as the meter export SGE or as the generic format
\* ALEX, whose values are in W, the metadata read_curve returns say
\* unit = "W".
C26_UnitW ==
    (stage = "parsed" /\ metadata.detected_format \in {"SGE", "ALEX"}) =>
        metadata.unit = "W"

\* What holds instead: the values of these formats come back divided by
\* 1000 and the metadata say the unit they are then in, kW.
UnitAfterNormalisation ==
    (stage = "parsed" /\ metadata.detected_format \in {"SGE", "ALEX"}) =>
        /\ metadata.unit = "kW"
        /\ \A i \in ReadableRows :
              \E k \in 1..Len(curve.index) :
                  /\ curve.index[k] = raw_df.rows[i][1].dt
                  /\ 1000 * curve.value[k] = raw_df.rows[i][2].num

\* ------------------------------------------------------------ properties of the search order
\* The curve given to the imputer has a value m weeks before or m weeks
\* after ts.
PresentAt(ts, m) == Given(ts - m * Week) # NaN \/ Given(ts + m * Week) # NaN

Magnitude(k) == IF k < 0 THEN -k ELSE k

\* C27: every sample the imputer has filled records an offset whose
\* magnitude is the smallest m of 1..max_weeks such that the curve given has
\* a value m weeks before or m weeks after the sample, and every missing
\* sample for which there is such an m has been filled.
C27_SmallestOffset ==
    stage = "imputed" =>
        \A i \in 1..Len(df_imputed.index) :
            /\ df_imputed._imputed[i] =>
                  /\ Magnitude(df_imputed._impute_source[i]) \in 1..max_weeks
                  /\ PresentAt(df_imputed.index[i], Magnitude(df_imputed._impute_source[i]))
                  /\ \A m \in 1..(Magnitude(df_imputed._impute_source[i]) - 1) :
                        ~PresentAt(df_imputed.index[i], m)
            /\ (Given(df_imputed.index[i]) = NaN
                    /\ \E m \in 1..max_weeks : PresentAt(df_imputed.index[i], m)) =>
                  df_imputed._imputed[i] /\ df_imputed.value[i] # NaN

\* What holds where the Series taken before the loop keeps the values it
\* had (copy-on-write).
SmallestOffsetUnderCopyOnWrite ==
    (stage = "imputed" /\ pandas.copy_on_write) =>
        \A i \in 1..Len(df_imputed.index) :
            /\ df_imputed._imputed[i] =>
                  /\ Magnitude(df_imputed._impute_source[i]) \in 1..max_weeks
                  /\ PresentAt(df_imputed.index[i], Magnitude(df_imputed._impute_source[i]))
                  /\ \A m \in 1..(Magnitude(df_imputed._impute_source[i]) - 1) :
                        ~PresentAt(df_imputed.index[i], m)
            /\ (Given(df_imputed.index[i]) = NaN
                    /\ \E m \in 1..max_weeks : PresentAt(df_imputed.index[i], m)) =>
                  df_imputed._imputed[i] /\ df_imputed.value[i] # NaN

\* ------------------------------------------------------------ properties of the surplus
\* C29: at every timestep with prod_total > 0, whatever percentages are
\* configured, the surplus attributed to each producer is between 0 and the
\* producer's output, and the self-consumed production recorded for the
\* producer, output minus surplus, is not negative.
C29_SurplusWithinProduction ==
    (t # 0 /\ ProdTotal > 0) =>
        \A p \in Producers :
            /\ RLe(Zero, it.surplus_p[p])
            /\ RLe(it.surplus_p[p], FromInt(df_prod[t][p]))
            /\ RLe(Zero, auto_prod_df[t][p])

\* The percentages that apply at the timestep sum to 100: those of the
\* Static policy, or those of every static group of DynamicSimple.
PercentagesAreShares ==
    CASE mode = "statique" -> PercentagesSum = 100
      [] mode = "dynamique_simple" ->
            \A pr \in Groups :
                GroupMode(pr) = "static" =>
                    IntSum([c \in Consumers |->
                               IF c \in Members(pr) THEN Get(GroupPercentages(pr), c, 0) ELSE 0],
                           Consumers) = 100
      [] OTHER -> TRUE

\* What holds: the surplus is within the production whenever the
\* percentages that apply sum to 100.
SurplusWithinProductionOfShares ==
    (t # 0 /\ ProdTotal > 0 /\ PercentagesAreShares) =>
        \A p \in Producers :
            /\ RLe(Zero, it.surplus_p[p])
            /\ RLe(it.surplus_p[p], FromInt(df_prod[t][p]))
            /\ RLe(Zero, auto_prod_df[t][p])

\* The timesteps the claim is about: DynamicSimple, production, a priority
\* for every consumer and percentages summing to 100 in every static group.
SimpleWithShares ==
    /\ t # 0
    /\ mode = "dynamique_simple"
    /\ ProdTotal > 0
    /\ DOMAIN consumer_priorities = Consumers
    /\ PercentagesAreShares

\* The self-consumption of the members of the group pr at the timestep.
GroupSelfConsumption(pr) ==
    RSum([c \in Consumers |-> IF c \in Members(pr) THEN SelfConsumption(c) ELSE Zero],
         Consumers)

\* C30: under DynamicSimple, when every consumer has a priority and the
\* percentages of every static group sum to 100, at every timestep with
\* prod_total > 0 the consumers' self-consumption plus the surplus of the
\* timestep, and plus the surplus attributed to the producers, equals
\* prod_total; in a group on the default key no member's self-consumption
\* exceeds its demand and the members' self-consumption sums to what the
\* group was granted.
C30_SimpleConservation ==
    SimpleWithShares =>
        /\ RAdd(SelfConsumptionSum, it.surplus_total) = FromInt(ProdTotal)
        /\ Conserved
        /\ \A i \in 1..Len(it.pool) :
              GroupMode(it.pool[i].pr) = "default" =>
                  /\ \A c \in Members(it.pool[i].pr) : RLe(SelfConsumption(c), Demand(c))
                  /\ GroupSelfConsumption(it.pool[i].pr) = it.pool[i].prod_for_group

\* A static group leaves surplus, a default group after it is granted
\* production, and some production is left after the last group.
C30_Witness ==
    /\ SimpleWithShares
    /\ Len(it.pool) = 2
    /\ GroupMode(it.pool[1].pr) = "static"
    /\ GroupMode(it.pool[2].pr) = "default"
    /\ RLt(Zero, it.pool[2].prod_for_group)
    /\ RLt(Zero, it.production_restante)
    /\ RLt(it.production_restante, it.surplus_total)
    /\ RAdd(SelfConsumptionSum, it.surplus_total) = FromInt(ProdTotal)


====
